---- MODULE Spec2Model ----
(***************************************************************************)
(* The DevOps agent's error classification and guardrails.                 *)
(*                                                                         *)
(* Error classification: AWSBaseService.handle_error, the AWSServiceError  *)
(* family it raises, and the aws_operation decorator that routes the       *)
(* exceptions of a service operation through it                            *)
(* (src/devops/src/aws/base.py, src/devops/src/aws/ec2.py).                *)
(*                                                                         *)
(* Guardrails: check_security, check_sensitive_info and the guardrail      *)
(* functions around them, in both packages that carry them                 *)
(* (src/agentic_devops/src/core/guardrails.py,                             *)
(* src/devops/src/core/guardrails.py).                                     *)
(*                                                                         *)
(* Python strings are sequences of one-character strings, so that          *)
(* str.lower(), the `in` substring test, re.search, re.findall, int() and  *)
(* f-string formatting are computed character by character.               *)
(***************************************************************************)
EXTENDS Integers, Sequences, FiniteSets, TLC

VARIABLES
    entry,      \* which entry point was invoked: "idle" before a call
    error,      \* the raw exception handed to handle_error / raised by the body
    operation,  \* the operation name given to handle_error or to the decorator
    func,       \* the decorated function: its __name__ and the decorator argument
    service,    \* whether self is an AWSBaseService (isinstance(self, AWSBaseService))
    body,       \* what the body of the decorated function did
    result      \* what the caller of the entry point observes

vars == <<entry, error, operation, func, service, body, result>>

VARIABLES
    package,           \* the package whose guardrails.py is invoked
    call,              \* the guardrail function invoked: "idle" before a call
    stage,             \* "called" while it runs, "returned" once it has ended
    checked_text,      \* its input_text / output_text
    verdict,           \* the SecurityCheckOutput / SensitiveInfoOutput of the check
    guardrail_output,  \* the GuardrailFunctionOutput of a guardrail function
    logged,            \* what the latest call wrote to the module's logger
    turns              \* the invocation each agent turn has in flight

guardrail_vars ==
    <<package, call, stage, checked_text, verdict, guardrail_output, logged, turns>>

VARIABLES
    cli,          \* the command line's error handler: the exception it was given, what
                  \* it printed and the exit code it returned
    credentials,  \* the module global _credential_manager and the threads that call
                  \* get_credential_manager
    github,       \* a GitHubService: its request cache, the clock, the server it talks
                  \* to and the call in progress
    config,       \* the configuration module: DEFAULT_CONFIG, the global _config and the
                  \* call in progress
    ec2           \* an EC2 instance and the EC2Service call made on it

later_vars == <<cli, credentials, github, config, ec2>>

\* what the actions of one component leave alone
beside_cli == <<vars, guardrail_vars, credentials, github, config, ec2>>
beside_credentials == <<vars, guardrail_vars, cli, github, config, ec2>>
beside_github == <<vars, guardrail_vars, cli, credentials, config, ec2>>
beside_config == <<vars, guardrail_vars, cli, credentials, github, ec2>>
beside_ec2 == <<vars, guardrail_vars, cli, credentials, github, config>>

all_vars == <<vars, guardrail_vars, later_vars>>

(***************************************************************************)
(* String constants of the source.                                         *)
(***************************************************************************)
\* the AWS error codes handle_error tests for, and one it does not know
Code ==
    [ ResourceNotFoundException |->
          <<"R", "e", "s", "o", "u", "r", "c", "e", "N", "o", "t", "F", "o", "u", "n", "d", "E",
            "x", "c", "e", "p", "t", "i", "o", "n">>,
      NoSuchEntity |-> <<"N", "o", "S", "u", "c", "h", "E", "n", "t", "i", "t", "y">>,
      NoSuchBucket |-> <<"N", "o", "S", "u", "c", "h", "B", "u", "c", "k", "e", "t">>,
      NotFound |-> <<"N", "o", "t", "F", "o", "u", "n", "d">>,
      InvalidInstanceID_NotFound |->
          <<"I", "n", "v", "a", "l", "i", "d", "I", "n", "s", "t", "a", "n", "c", "e", "I", "D",
            ".", "N", "o", "t", "F", "o", "u", "n", "d">>,
      InvalidGroup_NotFound |->
          <<"I", "n", "v", "a", "l", "i", "d", "G", "r", "o", "u", "p", ".", "N", "o", "t", "F",
            "o", "u", "n", "d">>,
      InvalidSecurityGroupID_NotFound |->
          <<"I", "n", "v", "a", "l", "i", "d", "S", "e", "c", "u", "r", "i", "t", "y", "G", "r",
            "o", "u", "p", "I", "D", ".", "N", "o", "t", "F", "o", "u", "n", "d">>,
      InvalidKeyPair_NotFound |->
          <<"I", "n", "v", "a", "l", "i", "d", "K", "e", "y", "P", "a", "i", "r", ".", "N", "o",
            "t", "F", "o", "u", "n", "d">>,
      InvalidKeyPair_Duplicate |->
          <<"I", "n", "v", "a", "l", "i", "d", "K", "e", "y", "P", "a", "i", "r", ".", "D", "u",
            "p", "l", "i", "c", "a", "t", "e">>,
      InvalidVpcID_NotFound |->
          <<"I", "n", "v", "a", "l", "i", "d", "V", "p", "c", "I", "D", ".", "N", "o", "t", "F",
            "o", "u", "n", "d">>,
      AccessDenied |-> <<"A", "c", "c", "e", "s", "s", "D", "e", "n", "i", "e", "d">>,
      UnauthorizedOperation |->
          <<"U", "n", "a", "u", "t", "h", "o", "r", "i", "z", "e", "d", "O", "p", "e", "r", "a",
            "t", "i", "o", "n">>,
      ValidationError |->
          <<"V", "a", "l", "i", "d", "a", "t", "i", "o", "n", "E", "r", "r", "o", "r">>,
      InvalidParameterValue |->
          <<"I", "n", "v", "a", "l", "i", "d", "P", "a", "r", "a", "m", "e", "t", "e", "r", "V",
            "a", "l", "u", "e">>,
      MalformedQueryString |->
          <<"M", "a", "l", "f", "o", "r", "m", "e", "d", "Q", "u", "e", "r", "y", "S", "t", "r",
            "i", "n", "g">>,
      Throttling |-> <<"T", "h", "r", "o", "t", "t", "l", "i", "n", "g">>,
      ThrottlingException |->
          <<"T", "h", "r", "o", "t", "t", "l", "i", "n", "g", "E", "x", "c", "e", "p", "t", "i",
            "o", "n">>,
      RequestLimitExceeded |->
          <<"R", "e", "q", "u", "e", "s", "t", "L", "i", "m", "i", "t", "E", "x", "c", "e", "e",
            "d", "e", "d">>,
      LimitExceeded |-> <<"L", "i", "m", "i", "t", "E", "x", "c", "e", "e", "d", "e", "d">>,
      InstanceLimitExceeded |->
          <<"I", "n", "s", "t", "a", "n", "c", "e", "L", "i", "m", "i", "t", "E", "x", "c", "e",
            "e", "d", "e", "d">>,
      ResourceLimitExceeded |->
          <<"R", "e", "s", "o", "u", "r", "c", "e", "L", "i", "m", "i", "t", "E", "x", "c", "e",
            "e", "d", "e", "d">>,
      OtherError |-> <<"O", "t", "h", "e", "r", "E", "r", "r", "o", "r">> ]

\* the literal parts of messages, suggestions and patterns
Text ==
    [ instance |-> <<"i", "n", "s", "t", "a", "n", "c", "e">>,
      security_group |-> <<"s", "e", "c", "u", "r", "i", "t", "y", " ", "g", "r", "o", "u", "p">>,
      key_pair |-> <<"k", "e", "y", " ", "p", "a", "i", "r">>,
      vpc |-> <<"v", "p", "c">>,
      VPC |-> <<"V", "P", "C">>,
      connection |-> <<"c", "o", "n", "n", "e", "c", "t", "i", "o", "n">>,
      timeout |-> <<"t", "i", "m", "e", "o", "u", "t">>,
      try_again_in |-> <<"t", "r", "y", " ", "a", "g", "a", "i", "n", " ", "i", "n", " ">>,
      seconds |-> <<" ", "s", "e", "c", "o", "n", "d", "s">>,
      failed |-> <<" ", "f", "a", "i", "l", "e", "d", ":", " ">>,
      resource_not_found |->
          <<"R", "e", "s", "o", "u", "r", "c", "e", " ", "n", "o", "t", " ", "f", "o", "u", "n",
            "d">>,
      permission_denied |->
          <<"P", "e", "r", "m", "i", "s", "s", "i", "o", "n", " ", "d", "e", "n", "i", "e", "d",
            " ", "-", " ">>,
      invalid_parameters |->
          <<"I", "n", "v", "a", "l", "i", "d", " ", "p", "a", "r", "a", "m", "e", "t", "e", "r",
            "s", " ", "-", " ">>,
      rate_limit_exceeded |->
          <<"R", "a", "t", "e", " ", "l", "i", "m", "i", "t", " ", "e", "x", "c", "e", "e", "d",
            "e", "d", " ", "-", " ">>,
      resource_limit_exceeded |->
          <<"R", "e", "s", "o", "u", "r", "c", "e", " ", "l", "i", "m", "i", "t", " ", "e", "x",
            "c", "e", "e", "d", "e", "d", " ", "-", " ">>,
      no_credentials |->
          <<"N", "o", " ", "v", "a", "l", "i", "d", " ", "A", "W", "S", " ", "c", "r", "e", "d",
            "e", "n", "t", "i", "a", "l", "s", " ", "f", "o", "u", "n", "d">>,
      check_if_the |-> <<"C", "h", "e", "c", "k", " ", "i", "f", " ", "t", "h", "e", " ">>,
      exists |->
          <<" ", "e", "x", "i", "s", "t", "s", " ", "a", "n", "d", " ", "y", "o", "u", " ", "h",
            "a", "v", "e", " ", "p", "e", "r", "m", "i", "s", "s", "i", "o", "n", " ", "t", "o",
            " ", "a", "c", "c", "e", "s", "s", " ", "i", "t", ".">>,
      wait_for |-> <<"W", "a", "i", "t", " ", "f", "o", "r", " ">>,
      before_retrying |->
          <<" ", "s", "e", "c", "o", "n", "d", "s", " ", "b", "e", "f", "o", "r", "e", " ", "r",
            "e", "t", "r", "y", "i", "n", "g", ".">>,
      an_error_occurred |->
          <<"A", "n", " ", "e", "r", "r", "o", "r", " ", "o", "c", "c", "u", "r", "r", "e", "d",
            " ", "(">>,
      when_calling |->
          <<")", " ", "w", "h", "e", "n", " ", "c", "a", "l", "l", "i", "n", "g", " ", "t", "h",
            "e", " ">>,
      operation |-> <<" ", "o", "p", "e", "r", "a", "t", "i", "o", "n", ":", " ">>,
      Unknown |-> <<"U", "n", "k", "n", "o", "w", "n">>,
      none_text |-> <<"N", "o", "n", "e">>,
      unable_to_locate |->
          <<"U", "n", "a", "b", "l", "e", " ", "t", "o", " ", "l", "o", "c", "a", "t", "e", " ",
            "c", "r", "e", "d", "e", "n", "t", "i", "a", "l", "s">>,
      Instance_ |-> <<"I", "n", "s", "t", "a", "n", "c", "e", " ">>,
      not_found |-> <<" ", "n", "o", "t", " ", "f", "o", "u", "n", "d">> ]

\* the fixed suggestions
Suggestion ==
    [ permission |->
          <<"C", "h", "e", "c", "k", " ", "y", "o", "u", "r", " ", "I", "A", "M", " ", "p", "e",
            "r", "m", "i", "s", "s", "i", "o", "n", "s", " ", "a", "n", "d", " ", "e", "n", "s",
            "u", "r", "e", " ", "y", "o", "u", "r", " ", "c", "r", "e", "d", "e", "n", "t", "i",
            "a", "l", "s", " ", "h", "a", "v", "e", " ", "t", "h", "e", " ", "n", "e", "c", "e",
            "s", "s", "a", "r", "y", " ", "a", "c", "c", "e", "s", "s", " ", "r", "i", "g", "h",
            "t", "s", ".">>,
      validation |->
          <<"C", "h", "e", "c", "k", " ", "t", "h", "e", " ", "i", "n", "p", "u", "t", " ", "p",
            "a", "r", "a", "m", "e", "t", "e", "r", "s", " ", "a", "n", "d", " ", "e", "n", "s",
            "u", "r", "e", " ", "t", "h", "e", "y", " ", "m", "e", "e", "t", " ", "t", "h", "e",
            " ", "r", "e", "q", "u", "i", "r", "e", "m", "e", "n", "t", "s", ".">>,
      backoff |->
          <<"R", "e", "d", "u", "c", "e", " ", "t", "h", "e", " ", "f", "r", "e", "q", "u", "e",
            "n", "c", "y", " ", "o", "f", " ", "A", "P", "I", " ", "c", "a", "l", "l", "s", " ",
            "o", "r", " ", "i", "m", "p", "l", "e", "m", "e", "n", "t", " ", "e", "x", "p", "o",
            "n", "e", "n", "t", "i", "a", "l", " ", "b", "a", "c", "k", "o", "f", "f", ".">>,
      limit |->
          <<"R", "e", "q", "u", "e", "s", "t", " ", "a", " ", "l", "i", "m", "i", "t", " ", "i",
            "n", "c", "r", "e", "a", "s", "e", " ", "f", "r", "o", "m", " ", "A", "W", "S", " ",
            "o", "r", " ", "d", "e", "l", "e", "t", "e", " ", "u", "n", "u", "s", "e", "d", " ",
            "r", "e", "s", "o", "u", "r", "c", "e", "s", ".">>,
      documentation |->
          <<"C", "h", "e", "c", "k", " ", "t", "h", "e", " ", "A", "W", "S", " ", "d", "o", "c",
            "u", "m", "e", "n", "t", "a", "t", "i", "o", "n", " ", "f", "o", "r", " ", "t", "h",
            "i", "s", " ", "s", "e", "r", "v", "i", "c", "e", " ", "o", "r", " ", "c", "o", "n",
            "t", "a", "c", "t", " ", "A", "W", "S", " ", "s", "u", "p", "p", "o", "r", "t", " ",
            "f", "o", "r", " ", "a", "s", "s", "i", "s", "t", "a", "n", "c", "e", ".">>,
      credentials |->
          <<"S", "e", "t", " ", "A", "W", "S", "_", "A", "C", "C", "E", "S", "S", "_", "K", "E",
            "Y", "_", "I", "D", " ", "a", "n", "d", " ", "A", "W", "S", "_", "S", "E", "C", "R",
            "E", "T", "_", "A", "C", "C", "E", "S", "S", "_", "K", "E", "Y", " ", "e", "n", "v",
            "i", "r", "o", "n", "m", "e", "n", "t", " ", "v", "a", "r", "i", "a", "b", "l", "e",
            "s", ",", " ", "c", "o", "n", "f", "i", "g", "u", "r", "e", " ", "A", "W", "S", " ",
            "C", "L", "I", " ", "w", "i", "t", "h", " ", "'", "a", "w", "s", " ", "c", "o", "n",
            "f", "i", "g", "u", "r", "e", "'", ",", " ", "o", "r", " ", "s", "p", "e", "c", "i",
            "f", "y", " ", "a", " ", "p", "r", "o", "f", "i", "l", "e", ".">>,
      network |->
          <<"C", "h", "e", "c", "k", " ", "y", "o", "u", "r", " ", "n", "e", "t", "w", "o", "r",
            "k", " ", "c", "o", "n", "n", "e", "c", "t", "i", "o", "n", " ", "a", "n", "d", " ",
            "t", "r", "y", " ", "a", "g", "a", "i", "n", ".">> ]

\* operation and function names
Op ==
    [ stop_instance |-> <<"s", "t", "o", "p", "_", "i", "n", "s", "t", "a", "n", "c", "e">>,
      verify_ec2_access |->
          <<"v", "e", "r", "i", "f", "y", "_", "e", "c", "2", "_", "a", "c", "c", "e", "s", "s">>,
      get_instance |-> <<"g", "e", "t", "_", "i", "n", "s", "t", "a", "n", "c", "e">>,
      list_instances |-> <<"l", "i", "s", "t", "_", "i", "n", "s", "t", "a", "n", "c", "e", "s">>,
      test_op |-> <<"t", "e", "s", "t", "_", "o", "p">>,
      DescribeInstances |->
          <<"D", "e", "s", "c", "r", "i", "b", "e", "I", "n", "s", "t", "a", "n", "c", "e", "s">> ]

\* the fragments error messages are made of, and an instance id
Frag ==
    [ Instance |-> <<"I", "n", "s", "t", "a", "n", "c", "e">>,
      quoted_id |-> <<"'", "i", "-", "0", "a", "'">>,
      quoted_other |-> <<"'", "a", " ", "b", "'">>,
      try_42 |->
          <<"t", "r", "y", " ", "a", "g", "a", "i", "n", " ", "i", "n", " ", "4", "2", " ", "s",
            "e", "c", "o", "n", "d", "s">>,
      try_0 |->
          <<"t", "r", "y", " ", "a", "g", "a", "i", "n", " ", "i", "n", " ", "0", " ", "s", "e",
            "c", "o", "n", "d", "s">>,
      Timeout |->
          <<"C", "o", "n", "n", "e", "c", "t", "i", "o", "n", " ", "T", "I", "M", "E", "O", "U",
            "T">>,
      not_authorized |->
          <<"U", "s", "e", "r", " ", "i", "s", " ", "n", "o", "t", " ", "a", "u", "t", "h", "o",
            "r", "i", "z", "e", "d">>,
      id_i_0a |-> <<"i", "-", "0", "a">> ]

\* the words the claims look for in a suggestion
Keyword ==
    [ IAM_permissions |->
          <<"I", "A", "M", " ", "p", "e", "r", "m", "i", "s", "s", "i", "o", "n", "s">>,
      keys |->
          <<"A", "W", "S", "_", "A", "C", "C", "E", "S", "S", "_", "K", "E", "Y", "_", "I", "D",
            " ", "a", "n", "d", " ", "A", "W", "S", "_", "S", "E", "C", "R", "E", "T", "_", "A",
            "C", "C", "E", "S", "S", "_", "K", "E", "Y">>,
      aws_configure |->
          <<"'", "a", "w", "s", " ", "c", "o", "n", "f", "i", "g", "u", "r", "e", "'">>,
      profile |->
          <<"s", "p", "e", "c", "i", "f", "y", " ", "a", " ", "p", "r", "o", "f", "i", "l", "e">> ]

lower_alphabet ==
    <<"a", "b", "c", "d", "e", "f", "g", "h", "i", "j", "k", "l", "m", "n", "o", "p", "q", "r",
      "s", "t", "u", "v", "w", "x", "y", "z">>
upper_alphabet ==
    <<"A", "B", "C", "D", "E", "F", "G", "H", "I", "J", "K", "L", "M", "N", "O", "P", "Q", "R",
      "S", "T", "U", "V", "W", "X", "Y", "Z">>
digit_alphabet ==
    <<"0", "1", "2", "3", "4", "5", "6", "7", "8", "9">>

(***************************************************************************)
(* Python string and regular-expression primitives used by the source.     *)
(***************************************************************************)
LowerChars == {lower_alphabet[i] : i \in 1..Len(lower_alphabet)}
UpperChars == {upper_alphabet[i] : i \in 1..Len(upper_alphabet)}
DigitChars == {digit_alphabet[i] : i \in 1..Len(digit_alphabet)}

\* the character class [a-zA-Z0-9-]
IdChars == LowerChars \cup UpperChars \cup DigitChars \cup {"-"}

char_lower(c) ==
    IF c \in UpperChars
    THEN lower_alphabet[CHOOSE i \in 1..Len(upper_alphabet) : upper_alphabet[i] = c]
    ELSE c

\* s.lower()
str_lower(s) == [i \in 1..Len(s) |-> char_lower(s[i])]

\* s[i:].startswith(sub), 1-based
MatchesAt(s, sub, i) ==
    /\ i >= 1
    /\ i + Len(sub) - 1 <= Len(s)
    /\ \A j \in 1..Len(sub) : s[i + j - 1] = sub[j]

\* sub in s
str_contains(sub, s) == \E i \in 1..(Len(s) - Len(sub) + 1) : MatchesAt(s, sub, i)

\* length of the longest run of characters of class C that starts at s[i]
RECURSIVE RunLength(_, _, _)
RunLength(s, i, C) ==
    IF i > Len(s) \/ s[i] \notin C THEN 0 ELSE 1 + RunLength(s, i + 1, C)

SetMin(S) == CHOOSE x \in S : \A y \in S : x <= y

\* int(digits)
RECURSIVE int_parse(_)
int_parse(ds) ==
    IF ds = <<>> THEN 0
    ELSE int_parse(SubSeq(ds, 1, Len(ds) - 1)) * 10
         + ((CHOOSE i \in 1..Len(digit_alphabet) : digit_alphabet[i] = ds[Len(ds)]) - 1)

\* f"{n}" for a non-negative int
RECURSIVE int_format(_)
int_format(n) ==
    IF n < 10 THEN <<digit_alphabet[n + 1]>>
    ELSE int_format(n \div 10) \o <<digit_alphabet[(n % 10) + 1]>>

\* the result of re.search: None, or a match with its group(1)
NoMatch == [found |-> FALSE, group |-> <<>>]
Match(g) == [found |-> TRUE, group |-> g]

\* re.search(r"'([a-zA-Z0-9-]+)'", s): leftmost match. A quote cannot belong to
\* the class, so the group is the whole run that follows the opening quote.
re_search_resource_id(s) ==
    LET Starts == {i \in 1..Len(s) :
                      /\ s[i] = "'"
                      /\ RunLength(s, i + 1, IdChars) >= 1
                      /\ MatchesAt(s, <<"'">>, i + 1 + RunLength(s, i + 1, IdChars))}
    IN  IF Starts = {} THEN NoMatch
        ELSE LET i == SetMin(Starts)
             IN  Match(SubSeq(s, i + 1, i + RunLength(s, i + 1, IdChars)))

\* re.search(r"try again in (\d+) seconds", s): leftmost match. " seconds" starts
\* with a non-digit, so the group is the whole digit run.
re_search_wait_time(s) ==
    LET D(i) == i + Len(Text.try_again_in)
        Starts == {i \in 1..Len(s) :
                      /\ MatchesAt(s, Text.try_again_in, i)
                      /\ RunLength(s, D(i), DigitChars) >= 1
                      /\ MatchesAt(s, Text.seconds, D(i) + RunLength(s, D(i), DigitChars))}
    IN  IF Starts = {} THEN NoMatch
        ELSE LET i == SetMin(Starts)
             IN  Match(SubSeq(s, D(i), D(i) + RunLength(s, D(i), DigitChars) - 1))

(***************************************************************************)
(* Python values: Optional[str] and Optional[int], and their truth value.  *)
(***************************************************************************)
None == [t |-> "none", v |-> <<>>]
Str(s) == [t |-> "str", v |-> s]
\* a value that is not a string (an int), with its repr
NonStr(repr) == [t |-> "int", v |-> repr]
\* a key that the dict does not hold
Missing == [t |-> "missing", v |-> <<>>]

NoInt == [t |-> "none", n |-> 0]
IntVal(n) == [t |-> "int", n |-> n]

\* bool(x) for an Optional[str]
str_truthy(x) == x.t = "str" /\ x.v # <<>>
\* bool(x) for an Optional[int]
int_truthy(x) == x.t = "int" /\ x.n # 0

\* d.get(key, default) on the value found under the key
dict_get(x, default) == IF x.t = "missing" THEN default ELSE x

(***************************************************************************)
(* The raw exceptions handle_error is given.                               *)
(***************************************************************************)
\* botocore ClientError(error_response, operation_name); code and message are
\* what error_response["Error"] holds under "Code" and "Message"
ClientError(code, message, operation_name) ==
    [type |-> "ClientError", code |-> code, message |-> message,
     operation_name |-> operation_name, text |-> <<>>]
NoCredentialsError ==
    [type |-> "NoCredentialsError", code |-> Missing, message |-> Missing,
     operation_name |-> <<>>, text |-> Text.unable_to_locate]
\* any other exception, str(e) == text
OtherException(text) ==
    [type |-> "Exception", code |-> Missing, message |-> Missing,
     operation_name |-> <<>>, text |-> text]
\* no raw exception is in play
NoError ==
    [type |-> "none", code |-> Missing, message |-> Missing,
     operation_name |-> <<>>, text |-> <<>>]
\* error = None
NullError ==
    [type |-> "NoneType", code |-> Missing, message |-> Missing,
     operation_name |-> <<>>, text |-> Text.none_text]

\* str(error): botocore formats a ClientError as
\* "An error occurred (<Code>) when calling the <op> operation: <Message>",
\* with "Unknown" for a missing code or message
str_error(e) ==
    IF e.type = "ClientError"
    THEN Text.an_error_occurred \o dict_get(e.code, Str(Text.Unknown)).v \o Text.when_calling
         \o e.operation_name \o Text.operation \o dict_get(e.message, Str(Text.Unknown)).v
    ELSE e.text

(***************************************************************************)
(* The domain errors (AWSServiceError and its subclasses).                 *)
(***************************************************************************)
AWSServiceError(message, suggestion) ==
    [cls |-> "AWSServiceError", message |-> message, suggestion |-> suggestion,
     resource_type |-> None, resource_id |-> None]

ResourceNotFoundError(message, resource_type, resource_id) ==
    LET suggestion ==
            IF str_truthy(resource_type) /\ str_truthy(resource_id)
            THEN Str(Text.check_if_the \o resource_type.v \o <<" ", "'">> \o resource_id.v
                     \o <<"'">> \o Text.exists)
            ELSE IF str_truthy(resource_type)
            THEN Str(Text.check_if_the \o resource_type.v \o Text.exists)
            ELSE None
    IN  [cls |-> "ResourceNotFoundError", message |-> message, suggestion |-> suggestion,
         resource_type |-> resource_type, resource_id |-> resource_id]

\* mutant: the suggestion of ValidationError pasted into PermissionDeniedError
PermissionDeniedError_pasted_suggestion(message) ==
    [cls |-> "PermissionDeniedError", message |-> message,
     suggestion |-> Str(Suggestion.validation), resource_type |-> None, resource_id |-> None]

PermissionDeniedError(message) ==
    [cls |-> "PermissionDeniedError", message |-> message,
     suggestion |-> Str(Suggestion.permission), resource_type |-> None, resource_id |-> None]

ValidationError(message) ==
    [cls |-> "ValidationError", message |-> message,
     suggestion |-> Str(Suggestion.validation), resource_type |-> None, resource_id |-> None]

RateLimitError(message, wait_time) ==
    [cls |-> "RateLimitError", message |-> message,
     suggestion |-> IF int_truthy(wait_time)
                    THEN Str(Text.wait_for \o int_format(wait_time.n) \o Text.before_retrying)
                    ELSE Str(Suggestion.backoff),
     resource_type |-> None, resource_id |-> None]

ResourceLimitError(message) ==
    [cls |-> "ResourceLimitError", message |-> message,
     suggestion |-> Str(Suggestion.limit), resource_type |-> None, resource_id |-> None]

\* the classes `except (AWSServiceError, ResourceNotFoundError, ...)` catches
DomainClasses ==
    {"AWSServiceError", "ResourceNotFoundError", "PermissionDeniedError",
     "ValidationError", "RateLimitError", "ResourceLimitError"}

(***************************************************************************)
(* What a call does: it raises an exception or returns a value.            *)
(***************************************************************************)
NoException ==
    [cls |-> "none", message |-> <<>>, suggestion |-> None,
     resource_type |-> None, resource_id |-> None]
Raise(exc) == [how |-> "raise", exc |-> exc, value |-> <<>>]
Return(value) == [how |-> "return", exc |-> NoException, value |-> value]
\* a raw exception that propagates to the caller as it is
RaiseRaw(e) ==
    Raise([cls |-> e.type, message |-> str_error(e), suggestion |-> None,
           resource_type |-> None, resource_id |-> None])

(***************************************************************************)
(* AWSBaseService.handle_error                                             *)
(***************************************************************************)
NotFoundCodes ==
    {Code.ResourceNotFoundException, Code.NoSuchEntity, Code.NoSuchBucket, Code.NotFound,
     Code.InvalidInstanceID_NotFound, Code.InvalidGroup_NotFound,
     Code.InvalidSecurityGroupID_NotFound, Code.InvalidKeyPair_NotFound,
     Code.InvalidKeyPair_Duplicate, Code.InvalidVpcID_NotFound}
PermissionCodes == {Code.AccessDenied, Code.UnauthorizedOperation}
\* mutant: InvalidParameterValue left out of the list
ValidationCodes_without_parameter_value == {Code.ValidationError, Code.MalformedQueryString}
ValidationCodes == {Code.ValidationError, Code.InvalidParameterValue, Code.MalformedQueryString}
ThrottlingCodes == {Code.Throttling, Code.ThrottlingException, Code.RequestLimitExceeded}
LimitCodes == {Code.LimitExceeded, Code.InstanceLimitExceeded, Code.ResourceLimitExceeded}

\* mutant: the membership test done on a string instead of a list, which turns
\* it into a substring test
code_in_substring(error_code, codes) ==
    error_code.t = "str" /\ \E c \in codes : str_contains(error_code.v, c)

\* error_code in [...]: a value that is not a string equals none of the codes
code_in(error_code, codes) == error_code.t = "str" /\ error_code.v \in codes

\* mutant: only the message is scanned, not the error code
extract_resource_type_message_only(error_code, error_msg) ==
    IF str_contains(Text.instance, str_lower(error_msg)) THEN Str(Text.instance)
    ELSE IF str_contains(Text.security_group, str_lower(error_msg)) THEN Str(Text.security_group)
    ELSE IF str_contains(Text.key_pair, str_lower(error_msg)) THEN Str(Text.key_pair)
    ELSE IF str_contains(Text.vpc, str_lower(error_msg)) THEN Str(Text.VPC)
    ELSE None

\* lines 221-232: the resource type of a not-found error
extract_resource_type(error_code, error_msg) ==
    IF \/ str_contains(Text.instance, str_lower(error_code))
       \/ str_contains(Text.instance, str_lower(error_msg))
    THEN Str(Text.instance)
    ELSE IF str_contains(Text.security_group, str_lower(error_msg))
    THEN Str(Text.security_group)
    ELSE IF str_contains(Text.key_pair, str_lower(error_msg))
    THEN Str(Text.key_pair)
    ELSE IF \/ str_contains(Text.vpc, str_lower(error_code))
            \/ str_contains(Text.vpc, str_lower(error_msg))
    THEN Str(Text.VPC)
    ELSE None

\* lines 234-238: the resource id of a not-found error
extract_resource_id(error_msg) ==
    LET id_match == re_search_resource_id(error_msg)
    IN  IF id_match.found THEN Str(id_match.group) ELSE None

\* lines 250-252: the wait time of a throttling error
extract_wait_time(err) ==
    LET wait_time_match == re_search_wait_time(str_error(err))
    IN  IF wait_time_match.found THEN IntVal(int_parse(wait_time_match.group)) ELSE NoInt

\* mutant: the fallback for an unknown code gives no suggestion
unknown_client_error_no_suggestion(err, op) ==
    Raise(AWSServiceError(op \o Text.failed \o str_error(err), None))

\* lines 258-261: a ClientError whose code is in none of the lists
unknown_client_error(err, op) ==
    Raise(AWSServiceError(op \o Text.failed \o str_error(err), Str(Suggestion.documentation)))

\* mutant: the unexpected exception is re-raised as it is
unexpected_error_reraise(err, op) == RaiseRaw(err)

\* mutant: the network words are looked for without lower()
unexpected_error_case_sensitive(err, op) ==
    LET suggestion ==
            IF \/ str_contains(Text.connection, str_error(err))
               \/ str_contains(Text.timeout, str_error(err))
            THEN Str(Suggestion.network)
            ELSE None
    IN  Raise(AWSServiceError(op \o Text.failed \o str_error(err), suggestion))

\* lines 268-273: any other exception
unexpected_error(err, op) ==
    LET suggestion ==
            IF \/ str_contains(Text.connection, str_lower(str_error(err)))
               \/ str_contains(Text.timeout, str_lower(str_error(err)))
            THEN Str(Suggestion.network)
            ELSE None
    IN  Raise(AWSServiceError(op \o Text.failed \o str_error(err), suggestion))

\* mutant: the NoCredentialsError branch is missing, the error falls through to
\* the last branch
no_credentials_error_fall_through(err, op) == unexpected_error(err, op)

\* lines 263-266: NoCredentialsError
no_credentials_error(err, op) ==
    Raise(AWSServiceError(op \o Text.failed \o Text.no_credentials, Str(Suggestion.credentials)))

handle_error(err, op) ==
    IF err.type = "ClientError"
    THEN LET error_code == dict_get(err.code, Str(<<>>))
             error_msg == dict_get(err.message, Str(<<>>)).v
         IN  IF code_in(error_code, NotFoundCodes)
             THEN Raise(ResourceNotFoundError(op \o Text.failed \o Text.resource_not_found,
                                              extract_resource_type(error_code.v, error_msg),
                                              extract_resource_id(error_msg)))
             ELSE IF code_in(error_code, PermissionCodes)
             THEN Raise(PermissionDeniedError(op \o Text.failed \o Text.permission_denied
                                              \o error_msg))
             ELSE IF code_in(error_code, ValidationCodes)
             THEN Raise(ValidationError(op \o Text.failed \o Text.invalid_parameters \o error_msg))
             ELSE IF code_in(error_code, ThrottlingCodes)
             THEN Raise(RateLimitError(op \o Text.failed \o Text.rate_limit_exceeded \o error_msg,
                                       extract_wait_time(err)))
             ELSE IF code_in(error_code, LimitCodes)
             THEN Raise(ResourceLimitError(op \o Text.failed \o Text.resource_limit_exceeded
                                           \o error_msg))
             ELSE unknown_client_error(err, op)
    ELSE IF err.type = "NoCredentialsError"
    THEN no_credentials_error(err, op)
    ELSE unexpected_error(err, op)

(***************************************************************************)
(* The aws_operation decorator and EC2Service.get_instance.                *)
(***************************************************************************)
\* what the body of a decorated function does
BodyReturns(value) ==
    [how |-> "return", value |-> value, domain |-> NoException, raw |-> NoError]
BodyRaisesDomain(exc) ==
    [how |-> "raise_domain", value |-> <<>>, domain |-> exc, raw |-> NoError]
BodyRaisesRaw(e) ==
    [how |-> "raise_raw", value |-> <<>>, domain |-> NoException, raw |-> e]

\* a decorated function: func.__name__ and the argument of @aws_operation(...)
Function(name, operation_name) == [name |-> name, operation_name |-> operation_name]

\* mutant: the decorator argument is ignored
op_name_of_func_name(fn) == fn.name

\* op_name = operation_name or func.__name__
op_name_of(fn) == IF str_truthy(fn.operation_name) THEN fn.operation_name.v ELSE fn.name

\* (the wrapper without the isinstance test: every other exception goes to
\* handle_error)
aws_operation_always_classifies(fn, self_is_service, b) ==
    IF b.how = "return" THEN Return(b.value)
    ELSE IF b.how = "raise_domain" THEN Raise(b.domain)
    ELSE LET r == handle_error(b.raw, op_name_of(fn))
         IN  IF r.how = "raise" THEN r ELSE Return(<<>>)

\* wrapper(self, *args, **kwargs); a call of handle_error that returned would
\* make the wrapper return None
aws_operation(fn, self_is_service, b) ==
    IF b.how = "return" THEN Return(b.value)
    ELSE IF b.how = "raise_domain" THEN Raise(b.domain)
    ELSE IF self_is_service
    THEN LET r == handle_error(b.raw, op_name_of(fn))
         IN  IF r.how = "raise" THEN r ELSE Return(<<>>)
    ELSE Raise(AWSServiceError(op_name_of(fn) \o Text.failed \o str_error(b.raw), None))

list_instances_fn == Function(Op.list_instances, Str(Op.list_instances))
get_instance_fn == Function(Op.get_instance, Str(Op.get_instance))

\* EC2Service.get_instance(instance_id); describe is what
\* client.describe_instances does inside list_instances. Values are lists of
\* instance ids; the instance returned is the list of its id alone.
get_instance(instance_id, describe) ==
    LET instances == aws_operation(list_instances_fn, TRUE, describe)
        b == IF instances.how = "raise"
             THEN BodyRaisesDomain(instances.exc)
             ELSE IF instances.value = <<>>
             THEN BodyRaisesDomain(ResourceNotFoundError(
                      Text.Instance_ \o instance_id \o Text.not_found, None, None))
             ELSE BodyReturns(<<instances.value[1]>>)
    IN  aws_operation(get_instance_fn, TRUE, b)

(***************************************************************************)
(* The inputs.                                                             *)
(***************************************************************************)
\* how many fragments an error message is made of, at most
MaxFragments == 2

Fragments ==
    {Frag.Instance, Text.security_group, Text.key_pair, Text.vpc, Frag.quoted_id, Frag.quoted_other,
     Frag.try_42, Frag.try_0, Frag.Timeout, Frag.not_authorized}

\* the texts made of at most n fragments, separated by one space
RECURSIVE Texts(_)
Texts(n) ==
    IF n = 0 THEN {<<>>}
    ELSE Texts(n - 1) \cup
         {IF t = <<>> THEN f ELSE t \o <<" ">> \o f : t \in Texts(n - 1), f \in Fragments}

MessageTexts == Texts(MaxFragments)

KnownCodes ==
    NotFoundCodes \cup PermissionCodes \cup ValidationCodes \cup ThrottlingCodes
    \cup LimitCodes

\* the codes errors arrive with: the ones the source names and one it does not
CodeTexts ==
    {Code.ResourceNotFoundException, Code.NoSuchEntity, Code.NoSuchBucket, Code.NotFound,
     Code.InvalidInstanceID_NotFound, Code.InvalidGroup_NotFound,
     Code.InvalidSecurityGroupID_NotFound, Code.InvalidKeyPair_NotFound,
     Code.InvalidKeyPair_Duplicate, Code.InvalidVpcID_NotFound, Code.AccessDenied,
     Code.UnauthorizedOperation, Code.ValidationError, Code.InvalidParameterValue,
     Code.MalformedQueryString, Code.Throttling, Code.ThrottlingException, Code.RequestLimitExceeded,
     Code.LimitExceeded, Code.InstanceLimitExceeded, Code.ResourceLimitExceeded, Code.OtherError}

\* what error_response["Error"] may hold under "Code": one of these codes, the
\* empty string, a value that is not a string, or nothing
Codes ==
    {Str(c) : c \in CodeTexts \cup {<<>>}} \cup {NonStr(<<"4", "0", "4">>), Missing}

Messages == {Str(m) : m \in MessageTexts} \cup {Missing}

ClientErrors == {ClientError(c, m, Op.DescribeInstances) : c \in Codes, m \in Messages}

RawErrors ==
    ClientErrors \cup {NoCredentialsError, NullError}
    \cup {OtherException(m) : m \in MessageTexts}

OperationNames == {Op.stop_instance, Op.verify_ec2_access}

\* decorated functions: @aws_operation("stop_instance") def stop_instance,
\* @aws_operation() def test_op, and a function whose name is not the argument
Functions ==
    {Function(Op.stop_instance, Str(Op.stop_instance)), Function(Op.test_op, None),
     Function(Op.test_op, Str(Op.verify_ec2_access))}

InstanceIds == {Frag.id_i_0a}

\* what the body of a decorated function may do: return, raise a domain error
\* of its own (as get_instance does) or let a raw exception out
Bodies ==
    {BodyReturns(v) : v \in {<<>>, <<Frag.id_i_0a>>}}
    \cup {BodyRaisesDomain(ResourceNotFoundError(
                Text.Instance_ \o id \o Text.not_found, None, None)) : id \in InstanceIds}
    \cup {BodyRaisesRaw(e) : e \in RawErrors}

\* what client.describe_instances may do inside list_instances
Describes ==
    {BodyReturns(v) : v \in {<<>>, <<Frag.id_i_0a>>}} \cup {BodyRaisesRaw(e) : e \in RawErrors}

(***************************************************************************)
(* Regular expressions, as the re module matches them.  A pattern is kept  *)
(* as the tree of its text; matching a tree at a position gives the end    *)
(* positions of its matches in the order the backtracking matcher tries    *)
(* them, so that the first one is the match re.search and re.findall take. *)
(***************************************************************************)
\* \s, \w and the word characters \b looks at
SpaceChars == {" ", "\t", "\n", "\r", "\f"}
WordChars == LowerChars \cup UpperChars \cup DigitChars \cup {"_"}

char_upper(c) ==
    IF c \in LowerChars
    THEN upper_alphabet[CHOOSE i \in 1..Len(lower_alphabet) : lower_alphabet[i] = c]
    ELSE c

\* s.upper()
str_upper(s) == [i \in 1..Len(s) |-> char_upper(s[i])]

\* the quantifier bound of + and {m,}
Unbounded == -1

\* a run of literal characters; () is Lit(<<>>)
Lit(w) == [k |-> "lit", w |-> w]
\* [...] and the escapes \s \d
In(S) == [k |-> "in", S |-> S]
\* [^...]
NotIn(S) == [k |-> "notin", S |-> S]
\* . without re.DOTALL
AnyChar == NotIn({"\n"})
\* \b
WordBoundary == [k |-> "b"]
\* (?<![...]) and (?![...])
NotBehind(S) == [k |-> "notbehind", S |-> S]
NotAhead(S) == [k |-> "notahead", S |-> S]
\* a sequence, an alternation a|b|c, and the greedy quantifiers {lo,hi} + ?
Cat(rs) == [k |-> "cat", rs |-> rs]
Alt(rs) == [k |-> "alt", rs |-> rs]
Rep(r, lo, hi) == [k |-> "rep", r |-> r, lo |-> lo, hi |-> hi]
Plus(r) == Rep(r, 1, Unbounded)
Opt(r) == Rep(r, 0, 1)

\* (a character class without re.IGNORECASE, whatever ic)
in_class_as_written(c, S, ic) == c \in S

\* whether character c is in class S, under re.IGNORECASE when ic
in_class(c, S, ic) == IF ic THEN char_lower(c) \in S \/ char_upper(c) \in S ELSE c \in S

\* whether the literal w is at s[i:], under re.IGNORECASE when ic
lit_at(s, w, i, ic) ==
    /\ i + Len(w) - 1 <= Len(s)
    /\ \A j \in 1..Len(w) :
          IF ic THEN char_lower(s[i + j - 1]) = char_lower(w[j]) ELSE s[i + j - 1] = w[j]

\* whether s[i] exists and is a word character
is_word(s, i) == i >= 1 /\ i <= Len(s) /\ s[i] \in WordChars

RECURSIVE re_ends(_, _, _, _)
RECURSIVE re_ends_all(_, _, _, _)
RECURSIVE cat_ends(_, _, _, _, _)
RECURSIVE alt_ends(_, _, _, _, _)
RECURSIVE rep_ends(_, _, _, _, _, _)
RECURSIVE rep_ends_all(_, _, _, _, _, _)

\* the ends of the matches of r that start at s[i], 1-based, in matching order
re_ends(r, s, i, ic) ==
    CASE r.k = "lit" -> IF lit_at(s, r.w, i, ic) THEN <<i + Len(r.w)>> ELSE <<>>
      [] r.k = "in" -> IF i <= Len(s) /\ in_class(s[i], r.S, ic) THEN <<i + 1>> ELSE <<>>
      [] r.k = "notin" -> IF i <= Len(s) /\ ~in_class(s[i], r.S, ic) THEN <<i + 1>> ELSE <<>>
      [] r.k = "b" -> IF is_word(s, i - 1) # is_word(s, i) THEN <<i>> ELSE <<>>
      [] r.k = "notbehind" -> IF i > 1 /\ in_class(s[i - 1], r.S, ic) THEN <<>> ELSE <<i>>
      [] r.k = "notahead" -> IF i <= Len(s) /\ in_class(s[i], r.S, ic) THEN <<>> ELSE <<i>>
      [] r.k = "cat" -> cat_ends(r.rs, 1, s, <<i>>, ic)
      [] r.k = "alt" -> alt_ends(r.rs, 1, s, i, ic)
      [] r.k = "rep" -> rep_ends(r.r, r.lo, r.hi, s, i, ic)

\* the matches of r from each of the starts, in order
re_ends_all(r, s, starts, ic) ==
    IF starts = <<>> THEN <<>>
    ELSE re_ends(r, s, Head(starts), ic) \o re_ends_all(r, s, Tail(starts), ic)

\* rs[n], rs[n+1], ... one after the other, from each of the starts
cat_ends(rs, n, s, starts, ic) ==
    IF n > Len(rs) \/ starts = <<>> THEN starts
    ELSE cat_ends(rs, n + 1, s, re_ends_all(rs[n], s, starts, ic), ic)

\* rs[n] | rs[n+1] | ..., the leftmost alternative first
alt_ends(rs, n, s, i, ic) ==
    IF n > Len(rs) THEN <<>>
    ELSE re_ends(rs[n], s, i, ic) \o alt_ends(rs, n + 1, s, i, ic)

\* r{lo,hi}, greedy: one more repetition is tried before stopping
rep_ends(r, lo, hi, s, i, ic) ==
    LET once == IF hi = 0 THEN <<>> ELSE SelectSeq(re_ends(r, s, i, ic), LAMBDA j : j > i)
        lo1 == IF lo > 0 THEN lo - 1 ELSE 0
        hi1 == IF hi = Unbounded THEN Unbounded ELSE hi - 1
    IN  rep_ends_all(r, lo1, hi1, s, once, ic) \o (IF lo = 0 THEN <<i>> ELSE <<>>)

rep_ends_all(r, lo, hi, s, starts, ic) ==
    IF starts = <<>> THEN <<>>
    ELSE rep_ends(r, lo, hi, s, Head(starts), ic) \o rep_ends_all(r, lo, hi, s, Tail(starts), ic)

\* bool(re.search(r, s, flags))
re_search(r, s, ic) == \E i \in 1..(Len(s) + 1) : re_ends(r, s, i, ic) # <<>>

\* the start of the leftmost match of r at or after position from, 0 when there is none
RECURSIVE first_start(_, _, _, _)
first_start(r, s, from, ic) ==
    IF from > Len(s) + 1 THEN 0
    ELSE IF re_ends(r, s, from, ic) # <<>> THEN from
    ELSE first_start(r, s, from + 1, ic)

\* s[i:j], 1-based and j exclusive
str_slice(s, i, j) == [n \in 1..(j - i) |-> s[i + n - 1]]

\* re.findall(r, s) for a pattern without capturing groups: the non-overlapping
\* matches from left to right; i is the start of the next match (0 for none) and
\* j its end
RECURSIVE re_findall_from(_, _, _, _)
re_findall_next(r, s, i, j, ic) ==
    <<str_slice(s, i, j)>> \o re_findall_from(r, s, IF j > i THEN j ELSE j + 1, ic)

re_findall_at(r, s, i, ic) ==
    IF i = 0 THEN <<>> ELSE re_findall_next(r, s, i, Head(re_ends(r, s, i, ic)), ic)

re_findall_from(r, s, from, ic) ==
    IF from > Len(s) + 1 THEN <<>> ELSE re_findall_at(r, s, first_start(r, s, from, ic), ic)

re_findall(r, s, ic) == re_findall_from(r, s, 1, ic)

\* s.startswith(prefix)
str_startswith(s, prefix) == MatchesAt(s, prefix, 1)

\* s.split("\n")
RECURSIVE str_split_from(_, _, _)
str_split_from(s, from, i) ==
    IF i > Len(s) THEN <<str_slice(s, from, i)>>
    ELSE IF s[i] = "\n" THEN <<str_slice(s, from, i)>> \o str_split_from(s, i + 1, i + 1)
    ELSE str_split_from(s, from, i + 1)

str_split_lines(s) == str_split_from(s, 1, 1)

\* agentic_devops check_security: dangerous_patterns
agentic_dangerous_patterns ==
    <<
      [ pattern |-> "rm\\s+-rf\\s+[/~]",
        re |->
            Cat(<<Lit(<<"r", "m">>), Plus(In(SpaceChars)), Lit(<<"-", "r", "f">>),
                Plus(In(SpaceChars)), In({"/", "~"})>>) ],
      [ pattern |-> "dd\\s+if=/dev/zero\\s+of=/dev/[hs]d[a-z]",
        re |->
            Cat(<<Lit(<<"d", "d">>), Plus(In(SpaceChars)), Lit(<<"i", "f", "=", "/", "d", "e",
                "v", "/", "z", "e", "r", "o">>), Plus(In(SpaceChars)), Lit(<<"o", "f", "=", "/",
                "d", "e", "v", "/">>), In({"h", "s"}), Lit(<<"d">>), In(LowerChars)>>) ],
      [ pattern |-> ":(){ :\\|:& };:",
        re |->
            Cat(<<Lit(<<":">>), Lit(<<>>), Lit(<<"{", " ", ":", "|", ":", "&", " ", "}", ";",
                ":">>)>>) ],
      [ pattern |-> "wget\\s+.+\\s+\\|\\s+bash",
        re |->
            Cat(<<Lit(<<"w", "g", "e", "t">>), Plus(In(SpaceChars)), Plus(AnyChar),
                Plus(In(SpaceChars)), Lit(<<"|">>), Plus(In(SpaceChars)), Lit(<<"b", "a", "s",
                "h">>)>>) ],
      [ pattern |-> "curl\\s+.+\\s+\\|\\s+bash",
        re |->
            Cat(<<Lit(<<"c", "u", "r", "l">>), Plus(In(SpaceChars)), Plus(AnyChar),
                Plus(In(SpaceChars)), Lit(<<"|">>), Plus(In(SpaceChars)), Lit(<<"b", "a", "s",
                "h">>)>>) ],
      [ pattern |-> "sudo\\s+rm\\s+-rf\\s+--no-preserve-root\\s+/",
        re |->
            Cat(<<Lit(<<"s", "u", "d", "o">>), Plus(In(SpaceChars)), Lit(<<"r", "m">>),
                Plus(In(SpaceChars)), Lit(<<"-", "r", "f">>), Plus(In(SpaceChars)), Lit(<<"-", "-",
                "n", "o", "-", "p", "r", "e", "s", "e", "r", "v", "e", "-", "r", "o", "o", "t">>),
                Plus(In(SpaceChars)), Lit(<<"/">>)>>) ],
      [ pattern |-> "mkfs\\s+/dev/[hs]d[a-z]",
        re |->
            Cat(<<Lit(<<"m", "k", "f", "s">>), Plus(In(SpaceChars)), Lit(<<"/", "d", "e", "v",
                "/">>), In({"h", "s"}), Lit(<<"d">>), In(LowerChars)>>) ],
      [ pattern |-> "DROP\\s+TABLE",
        re |->
            Cat(<<Lit(<<"D", "R", "O", "P">>), Plus(In(SpaceChars)), Lit(<<"T", "A", "B", "L",
                "E">>)>>) ],
      [ pattern |-> "DELETE\\s+FROM\\s+.+\\s+WHERE",
        re |->
            Cat(<<Lit(<<"D", "E", "L", "E", "T", "E">>), Plus(In(SpaceChars)), Lit(<<"F", "R",
                "O", "M">>), Plus(In(SpaceChars)), Plus(AnyChar), Plus(In(SpaceChars)), Lit(<<"W",
                "H", "E", "R", "E">>)>>) ],
      [ pattern |-> "shutdown\\s+-h\\s+now",
        re |->
            Cat(<<Lit(<<"s", "h", "u", "t", "d", "o", "w", "n">>), Plus(In(SpaceChars)),
                Lit(<<"-", "h">>), Plus(In(SpaceChars)), Lit(<<"n", "o", "w">>)>>) ],
      [ pattern |-> "halt",
        re |->
            Lit(<<"h", "a", "l", "t">>) ],
      [ pattern |-> "poweroff",
        re |->
            Lit(<<"p", "o", "w", "e", "r", "o", "f", "f">>) ],
      [ pattern |-> "sudo\\s+passwd\\s+root",
        re |->
            Cat(<<Lit(<<"s", "u", "d", "o">>), Plus(In(SpaceChars)), Lit(<<"p", "a", "s", "s",
                "w", "d">>), Plus(In(SpaceChars)), Lit(<<"r", "o", "o", "t">>)>>) ],
      [ pattern |-> "chmod\\s+-R\\s+777\\s+/",
        re |->
            Cat(<<Lit(<<"c", "h", "m", "o", "d">>), Plus(In(SpaceChars)), Lit(<<"-", "R">>),
                Plus(In(SpaceChars)), Lit(<<"7", "7", "7">>), Plus(In(SpaceChars)),
                Lit(<<"/">>)>>) ],
      [ pattern |-> "chown\\s+-R\\s+[^:]+:[^:]+\\s+/",
        re |->
            Cat(<<Lit(<<"c", "h", "o", "w", "n">>), Plus(In(SpaceChars)), Lit(<<"-", "R">>),
                Plus(In(SpaceChars)), Plus(NotIn({":"})), Lit(<<":">>), Plus(NotIn({":"})),
                Plus(In(SpaceChars)), Lit(<<"/">>)>>) ]
    >>

\* agentic_devops check_security: the credential, token and private-key tests that
\* follow the loop, each with the reasoning it returns
agentic_credential_rules ==
    <<
      [ pattern |-> "(AWS_ACCESS_KEY_ID|AWS_SECRET_ACCESS_KEY|aws_access_key_id|aws_secret_access_key)",
        reasoning |-> <<"Input contains AWS credential information">>,
        re |->
            Alt(<<Lit(<<"A", "W", "S", "_", "A", "C", "C", "E", "S", "S", "_", "K", "E", "Y",
                "_", "I", "D">>), Lit(<<"A", "W", "S", "_", "S", "E", "C", "R", "E", "T", "_", "A",
                "C", "C", "E", "S", "S", "_", "K", "E", "Y">>), Lit(<<"a", "w", "s", "_", "a", "c",
                "c", "e", "s", "s", "_", "k", "e", "y", "_", "i", "d">>), Lit(<<"a", "w", "s", "_",
                "s", "e", "c", "r", "e", "t", "_", "a", "c", "c", "e", "s", "s", "_", "k", "e",
                "y">>)>>) ],
      [ pattern |-> "(github_token|GITHUB_TOKEN|ghp_[a-zA-Z0-9]{36})",
        reasoning |-> <<"Input contains GitHub token information">>,
        re |->
            Alt(<<Lit(<<"g", "i", "t", "h", "u", "b", "_", "t", "o", "k", "e", "n">>),
                Lit(<<"G", "I", "T", "H", "U", "B", "_", "T", "O", "K", "E", "N">>),
                Cat(<<Lit(<<"g", "h", "p", "_">>),
                Rep(In(LowerChars \cup UpperChars \cup DigitChars), 36, 36)>>)>>) ],
      [ pattern |-> "-----BEGIN\\s+(RSA|DSA|EC|OPENSSH)\\s+PRIVATE\\s+KEY-----",
        reasoning |-> <<"Input contains private key information">>,
        re |->
            Cat(<<Lit(<<"-", "-", "-", "-", "-", "B", "E", "G", "I", "N">>),
                Plus(In(SpaceChars)), Alt(<<Lit(<<"R", "S", "A">>), Lit(<<"D", "S", "A">>),
                Lit(<<"E", "C">>), Lit(<<"O", "P", "E", "N", "S", "S", "H">>)>>),
                Plus(In(SpaceChars)), Lit(<<"P", "R", "I", "V", "A", "T", "E">>),
                Plus(In(SpaceChars)), Lit(<<"K", "E", "Y", "-", "-", "-", "-", "-">>)>>) ]
    >>

\* agentic_devops check_sensitive_info: sensitive_patterns
agentic_sensitive_patterns ==
    <<
      [ pattern |-> "(AKIA[0-9A-Z]{16})",
        re |->
            Cat(<<Lit(<<"A", "K", "I", "A">>), Rep(In(DigitChars \cup UpperChars), 16, 16)>>) ],
      [ pattern |-> "([0-9a-zA-Z/+]{40})",
        re |->
            Rep(In(DigitChars \cup LowerChars \cup UpperChars \cup {"/", "+"}), 40, 40) ],
      [ pattern |-> "(github_pat_[a-zA-Z0-9_]{22,})",
        re |->
            Cat(<<Lit(<<"g", "i", "t", "h", "u", "b", "_", "p", "a", "t", "_">>),
                Rep(In(LowerChars \cup UpperChars \cup DigitChars \cup {"_"}), 22, Unbounded)>>) ],
      [ pattern |-> "(ghp_[a-zA-Z0-9]{36})",
        re |->
            Cat(<<Lit(<<"g", "h", "p", "_">>),
                Rep(In(LowerChars \cup UpperChars \cup DigitChars), 36, 36)>>) ],
      [ pattern |-> "-----BEGIN\\s+(RSA|DSA|EC|OPENSSH)\\s+PRIVATE\\s+KEY-----",
        re |->
            Cat(<<Lit(<<"-", "-", "-", "-", "-", "B", "E", "G", "I", "N">>),
                Plus(In(SpaceChars)), Alt(<<Lit(<<"R", "S", "A">>), Lit(<<"D", "S", "A">>),
                Lit(<<"E", "C">>), Lit(<<"O", "P", "E", "N", "S", "S", "H">>)>>),
                Plus(In(SpaceChars)), Lit(<<"P", "R", "I", "V", "A", "T", "E">>),
                Plus(In(SpaceChars)), Lit(<<"K", "E", "Y", "-", "-", "-", "-", "-">>)>>) ],
      [ pattern |-> "(10\\.\\d{1,3}\\.\\d{1,3}\\.\\d{1,3})",
        re |->
            Cat(<<Lit(<<"1", "0", ".">>), Rep(In(DigitChars), 1, 3), Lit(<<".">>),
                Rep(In(DigitChars), 1, 3), Lit(<<".">>), Rep(In(DigitChars), 1, 3)>>) ],
      [ pattern |-> "(172\\.(1[6-9]|2[0-9]|3[0-1])\\.\\d{1,3}\\.\\d{1,3})",
        re |->
            Cat(<<Lit(<<"1", "7", "2", ".">>), Alt(<<Cat(<<Lit(<<"1">>), In({"6", "7", "8",
                "9"})>>), Cat(<<Lit(<<"2">>), In(DigitChars)>>), Cat(<<Lit(<<"3">>), In({"0",
                "1"})>>)>>), Lit(<<".">>), Rep(In(DigitChars), 1, 3), Lit(<<".">>),
                Rep(In(DigitChars), 1, 3)>>) ],
      [ pattern |-> "(192\\.168\\.\\d{1,3}\\.\\d{1,3})",
        re |->
            Cat(<<Lit(<<"1", "9", "2", ".", "1", "6", "8", ".">>), Rep(In(DigitChars), 1, 3),
                Lit(<<".">>), Rep(In(DigitChars), 1, 3)>>) ],
      [ pattern |-> "(password|passwd|pwd)[\\s:=]+[^\\s]+",
        re |->
            Cat(<<Alt(<<Lit(<<"p", "a", "s", "s", "w", "o", "r", "d">>), Lit(<<"p", "a", "s",
                "s", "w", "d">>), Lit(<<"p", "w", "d">>)>>), Plus(In(SpaceChars \cup {":", "="})),
                Plus(NotIn(SpaceChars))>>) ],
      [ pattern |-> "(api[_-]?key|apikey)[\\s:=]+[^\\s]+",
        re |->
            Cat(<<Alt(<<Cat(<<Lit(<<"a", "p", "i">>), Opt(In({"_", "-"})), Lit(<<"k", "e",
                "y">>)>>), Lit(<<"a", "p", "i", "k", "e", "y">>)>>), Plus(In(SpaceChars \cup {":",
                "="})), Plus(NotIn(SpaceChars))>>) ],
      [ pattern |-> "(jdbc:|\\bdb_connection|\\bconnection_string)",
        re |->
            Alt(<<Lit(<<"j", "d", "b", "c", ":">>), Cat(<<WordBoundary, Lit(<<"d", "b", "_",
                "c", "o", "n", "n", "e", "c", "t", "i", "o", "n">>)>>), Cat(<<WordBoundary,
                Lit(<<"c", "o", "n", "n", "e", "c", "t", "i", "o", "n", "_", "s", "t", "r", "i",
                "n", "g">>)>>)>>) ]
    >>

\* devops check_security: dangerous_patterns
devops_dangerous_patterns ==
    <<
      [ pattern |-> "delete\\s+all",
        re |->
            Cat(<<Lit(<<"d", "e", "l", "e", "t", "e">>), Plus(In(SpaceChars)), Lit(<<"a", "l",
                "l">>)>>) ],
      [ pattern |-> "remove\\s+all",
        re |->
            Cat(<<Lit(<<"r", "e", "m", "o", "v", "e">>), Plus(In(SpaceChars)), Lit(<<"a", "l",
                "l">>)>>) ],
      [ pattern |-> "drop\\s+(database|table)",
        re |->
            Cat(<<Lit(<<"d", "r", "o", "p">>), Plus(In(SpaceChars)), Alt(<<Lit(<<"d", "a", "t",
                "a", "b", "a", "s", "e">>), Lit(<<"t", "a", "b", "l", "e">>)>>)>>) ],
      [ pattern |-> "truncate\\s+(database|table)",
        re |->
            Cat(<<Lit(<<"t", "r", "u", "n", "c", "a", "t", "e">>), Plus(In(SpaceChars)),
                Alt(<<Lit(<<"d", "a", "t", "a", "b", "a", "s", "e">>), Lit(<<"t", "a", "b", "l",
                "e">>)>>)>>) ],
      [ pattern |-> "wipe\\s+(disk|drive|volume|instance|server)",
        re |->
            Cat(<<Lit(<<"w", "i", "p", "e">>), Plus(In(SpaceChars)), Alt(<<Lit(<<"d", "i", "s",
                "k">>), Lit(<<"d", "r", "i", "v", "e">>), Lit(<<"v", "o", "l", "u", "m", "e">>),
                Lit(<<"i", "n", "s", "t", "a", "n", "c", "e">>), Lit(<<"s", "e", "r", "v", "e",
                "r">>)>>)>>) ],
      [ pattern |-> "format\\s+(disk|drive|volume)",
        re |->
            Cat(<<Lit(<<"f", "o", "r", "m", "a", "t">>), Plus(In(SpaceChars)), Alt(<<Lit(<<"d",
                "i", "s", "k">>), Lit(<<"d", "r", "i", "v", "e">>), Lit(<<"v", "o", "l", "u", "m",
                "e">>)>>)>>) ],
      [ pattern |-> "terminate\\s+all\\s+instances",
        re |->
            Cat(<<Lit(<<"t", "e", "r", "m", "i", "n", "a", "t", "e">>), Plus(In(SpaceChars)),
                Lit(<<"a", "l", "l">>), Plus(In(SpaceChars)), Lit(<<"i", "n", "s", "t", "a", "n",
                "c", "e", "s">>)>>) ],
      [ pattern |-> "delete\\s+(bucket|cluster|vpc|subnet)",
        re |->
            Cat(<<Lit(<<"d", "e", "l", "e", "t", "e">>), Plus(In(SpaceChars)), Alt(<<Lit(<<"b",
                "u", "c", "k", "e", "t">>), Lit(<<"c", "l", "u", "s", "t", "e", "r">>), Lit(<<"v",
                "p", "c">>), Lit(<<"s", "u", "b", "n", "e", "t">>)>>)>>) ],
      [ pattern |-> "remove\\s+all\\s+security\\s+groups",
        re |->
            Cat(<<Lit(<<"r", "e", "m", "o", "v", "e">>), Plus(In(SpaceChars)), Lit(<<"a", "l",
                "l">>), Plus(In(SpaceChars)), Lit(<<"s", "e", "c", "u", "r", "i", "t", "y">>),
                Plus(In(SpaceChars)), Lit(<<"g", "r", "o", "u", "p", "s">>)>>) ],
      [ pattern |-> "delete\\s+all\\s+(repos|repositories)",
        re |->
            Cat(<<Lit(<<"d", "e", "l", "e", "t", "e">>), Plus(In(SpaceChars)), Lit(<<"a", "l",
                "l">>), Plus(In(SpaceChars)), Alt(<<Lit(<<"r", "e", "p", "o", "s">>), Lit(<<"r",
                "e", "p", "o", "s", "i", "t", "o", "r", "i", "e", "s">>)>>)>>) ],
      [ pattern |-> "remove\\s+all\\s+collaborators",
        re |->
            Cat(<<Lit(<<"r", "e", "m", "o", "v", "e">>), Plus(In(SpaceChars)), Lit(<<"a", "l",
                "l">>), Plus(In(SpaceChars)), Lit(<<"c", "o", "l", "l", "a", "b", "o", "r", "a",
                "t", "o", "r", "s">>)>>) ],
      [ pattern |-> "delete\\s+organization",
        re |->
            Cat(<<Lit(<<"d", "e", "l", "e", "t", "e">>), Plus(In(SpaceChars)), Lit(<<"o", "r",
                "g", "a", "n", "i", "z", "a", "t", "i", "o", "n">>)>>) ],
      [ pattern |-> "rm\\s+-rf\\s+/",
        re |->
            Cat(<<Lit(<<"r", "m">>), Plus(In(SpaceChars)), Lit(<<"-", "r", "f">>),
                Plus(In(SpaceChars)), Lit(<<"/">>)>>) ],
      [ pattern |-> "sudo\\s+rm",
        re |->
            Cat(<<Lit(<<"s", "u", "d", "o">>), Plus(In(SpaceChars)), Lit(<<"r", "m">>)>>) ],
      [ pattern |-> "chmod\\s+777",
        re |->
            Cat(<<Lit(<<"c", "h", "m", "o", "d">>), Plus(In(SpaceChars)), Lit(<<"7", "7",
                "7">>)>>) ],
      [ pattern |-> ":(){ :\\|:& };:",
        re |->
            Cat(<<Lit(<<":">>), Lit(<<>>), Lit(<<"{", " ", ":", "|", ":", "&", " ", "}", ";",
                ":">>)>>) ]
    >>

\* devops check_security: excessive_scope_patterns
devops_excessive_scope_patterns ==
    <<
      [ pattern |-> "all\\s+regions",
        re |->
            Cat(<<Lit(<<"a", "l", "l">>), Plus(In(SpaceChars)), Lit(<<"r", "e", "g", "i", "o",
                "n", "s">>)>>) ],
      [ pattern |-> "all\\s+accounts",
        re |->
            Cat(<<Lit(<<"a", "l", "l">>), Plus(In(SpaceChars)), Lit(<<"a", "c", "c", "o", "u",
                "n", "t", "s">>)>>) ],
      [ pattern |-> "all\\s+resources",
        re |->
            Cat(<<Lit(<<"a", "l", "l">>), Plus(In(SpaceChars)), Lit(<<"r", "e", "s", "o", "u",
                "r", "c", "e", "s">>)>>) ],
      [ pattern |-> "all\\s+instances",
        re |->
            Cat(<<Lit(<<"a", "l", "l">>), Plus(In(SpaceChars)), Lit(<<"i", "n", "s", "t", "a",
                "n", "c", "e", "s">>)>>) ],
      [ pattern |-> "all\\s+databases",
        re |->
            Cat(<<Lit(<<"a", "l", "l">>), Plus(In(SpaceChars)), Lit(<<"d", "a", "t", "a", "b",
                "a", "s", "e", "s">>)>>) ],
      [ pattern |-> "all\\s+repositories",
        re |->
            Cat(<<Lit(<<"a", "l", "l">>), Plus(In(SpaceChars)), Lit(<<"r", "e", "p", "o", "s",
                "i", "t", "o", "r", "i", "e", "s">>)>>) ]
    >>

\* devops check_sensitive_info: sensitive_patterns, in dictionary order
devops_sensitive_patterns ==
    <<
      [ name |-> "AWS Access Key",
        pattern |-> "(?<![A-Z0-9])[A-Z0-9]{20}(?![A-Z0-9])",
        re |->
            Cat(<<NotBehind(UpperChars \cup DigitChars), Rep(In(UpperChars \cup DigitChars),
                20, 20), NotAhead(UpperChars \cup DigitChars)>>) ],
      [ name |-> "AWS Secret Key",
        pattern |-> "(?<![A-Za-z0-9/+=])[A-Za-z0-9/+=]{40}(?![A-Za-z0-9/+=])",
        re |->
            Cat(<<NotBehind(UpperChars \cup LowerChars \cup DigitChars \cup {"/", "+", "="}),
                Rep(In(UpperChars \cup LowerChars \cup DigitChars \cup {"/", "+", "="}), 40, 40),
                NotAhead(UpperChars \cup LowerChars \cup DigitChars \cup {"/", "+", "="})>>) ],
      [ name |-> "AWS Session Token",
        pattern |-> "(?<![A-Za-z0-9/+=])[A-Za-z0-9/+=]{16,}(?![A-Za-z0-9/+=])",
        re |->
            Cat(<<NotBehind(UpperChars \cup LowerChars \cup DigitChars \cup {"/", "+", "="}),
                Rep(In(UpperChars \cup LowerChars \cup DigitChars \cup {"/", "+", "="}), 16,
                Unbounded), NotAhead(UpperChars \cup LowerChars \cup DigitChars \cup {"/", "+",
                "="})>>) ],
      [ name |-> "SSH Private Key",
        pattern |-> "-----BEGIN\\s+(?:RSA|DSA|EC|OPENSSH)\\s+PRIVATE\\s+KEY",
        re |->
            Cat(<<Lit(<<"-", "-", "-", "-", "-", "B", "E", "G", "I", "N">>),
                Plus(In(SpaceChars)), Alt(<<Lit(<<"R", "S", "A">>), Lit(<<"D", "S", "A">>),
                Lit(<<"E", "C">>), Lit(<<"O", "P", "E", "N", "S", "S", "H">>)>>),
                Plus(In(SpaceChars)), Lit(<<"P", "R", "I", "V", "A", "T", "E">>),
                Plus(In(SpaceChars)), Lit(<<"K", "E", "Y">>)>>) ],
      [ name |-> "GitHub Token",
        pattern |-> "(?:github|gh)(?:_pat|_token|_secret)?['\\\"][0-9a-zA-Z_]{36,}['\\\"]",
        re |->
            Cat(<<Alt(<<Lit(<<"g", "i", "t", "h", "u", "b">>), Lit(<<"g", "h">>)>>),
                Opt(Alt(<<Lit(<<"_", "p", "a", "t">>), Lit(<<"_", "t", "o", "k", "e", "n">>),
                Lit(<<"_", "s", "e", "c", "r", "e", "t">>)>>)), In({"'", "\""}),
                Rep(In(DigitChars \cup LowerChars \cup UpperChars \cup {"_"}), 36, Unbounded),
                In({"'", "\""})>>) ],
      [ name |-> "API Key",
        pattern |-> "api[_-]?key['\\\"][0-9a-zA-Z]{32,}['\\\"]",
        re |->
            Cat(<<Lit(<<"a", "p", "i">>), Opt(In({"_", "-"})), Lit(<<"k", "e", "y">>), In({"'",
                "\""}), Rep(In(DigitChars \cup LowerChars \cup UpperChars), 32, Unbounded),
                In({"'", "\""})>>) ],
      [ name |-> "Password",
        pattern |-> "password['\\\"][^'\\\"]{8,}['\\\"]",
        re |->
            Cat(<<Lit(<<"p", "a", "s", "s", "w", "o", "r", "d">>), In({"'", "\""}),
                Rep(NotIn({"'", "\""}), 8, Unbounded), In({"'", "\""})>>) ],
      [ name |-> "IP Address",
        pattern |-> "\\b(?:\\d{1,3}\\.){3}\\d{1,3}\\b",
        re |->
            Cat(<<WordBoundary, Rep(Cat(<<Rep(In(DigitChars), 1, 3), Lit(<<".">>)>>), 3, 3),
                Rep(In(DigitChars), 1, 3), WordBoundary>>) ],
      [ name |-> "Email Address",
        pattern |-> "\\b[A-Za-z0-9._%+-]+@[A-Za-z0-9.-]+\\.[A-Z|a-z]{2,}\\b",
        re |->
            Cat(<<WordBoundary, Plus(In(UpperChars \cup LowerChars \cup DigitChars \cup {".",
                "_", "%", "+", "-"})), Lit(<<"@">>),
                Plus(In(UpperChars \cup LowerChars \cup DigitChars \cup {".", "-"})), Lit(<<".">>),
                Rep(In(UpperChars \cup LowerChars \cup {"|"}), 2, Unbounded), WordBoundary>>) ]
    >>

\* devops check_security: the destructive operations looked for beside a scope
devops_destructive_operations ==
    <<
      [ text |-> "delete",
        chars |-> <<"d", "e", "l", "e", "t", "e">> ],
      [ text |-> "remove",
        chars |-> <<"r", "e", "m", "o", "v", "e">> ],
      [ text |-> "terminate",
        chars |-> <<"t", "e", "r", "m", "i", "n", "a", "t", "e">> ],
      [ text |-> "stop",
        chars |-> <<"s", "t", "o", "p">> ],
      [ text |-> "kill",
        chars |-> <<"k", "i", "l", "l">> ]
    >>

\* devops check_sensitive_info: credential_mentions
devops_credential_mentions ==
    <<
      [ text |-> "access key",
        chars |-> <<"a", "c", "c", "e", "s", "s", " ", "k", "e", "y">> ],
      [ text |-> "secret key",
        chars |-> <<"s", "e", "c", "r", "e", "t", " ", "k", "e", "y">> ],
      [ text |-> "private key",
        chars |-> <<"p", "r", "i", "v", "a", "t", "e", " ", "k", "e", "y">> ],
      [ text |-> "api key",
        chars |-> <<"a", "p", "i", " ", "k", "e", "y">> ],
      [ text |-> "token",
        chars |-> <<"t", "o", "k", "e", "n">> ],
      [ text |-> "password",
        chars |-> <<"p", "a", "s", "s", "w", "o", "r", "d">> ],
      [ text |-> "credential",
        chars |-> <<"c", "r", "e", "d", "e", "n", "t", "i", "a", "l">> ],
      [ text |-> "secret",
        chars |-> <<"s", "e", "c", "r", "e", "t">> ]
    >>

(***************************************************************************)
(* The guardrail checks of the two packages: check_security and            *)
(* check_sensitive_info, and the guardrail functions that wrap them.  A    *)
(* reasoning, a message or a log line is the sequence of the pieces of its *)
(* f-string.                                                               *)
(***************************************************************************)
SecurityCheckOutput(is_malicious, reasoning) ==
    [is_malicious |-> is_malicious, reasoning |-> reasoning]

SensitiveInfoOutput(contains_sensitive_info, reasoning) ==
    [contains_sensitive_info |-> contains_sensitive_info, reasoning |-> reasoning]

\* (the loop without its return: the last rule of rules[n:] that matches s)
RECURSIVE last_match(_, _, _, _)
last_match(rules, n, s, ic) ==
    IF n > Len(rules) THEN 0
    ELSE IF last_match(rules, n + 1, s, ic) > 0 THEN last_match(rules, n + 1, s, ic)
    ELSE IF re_search(rules[n].re, s, ic) THEN n
    ELSE 0

\* for rule in rules[n:]: if re.search(rule, s, flags): the index of the first rule
\* that matches, 0 when the loop ends without one
RECURSIVE first_match(_, _, _, _)
first_match(rules, n, s, ic) ==
    IF n > Len(rules) THEN 0
    ELSE IF re_search(rules[n].re, s, ic) THEN n
    ELSE first_match(rules, n + 1, s, ic)

\* (the loop without its test: the first word of words[n:], whatever s holds)
first_word(words, n, s) == IF n > Len(words) THEN 0 ELSE n

\* for word in words[n:]: if word in s: the index of the first word s contains
RECURSIVE first_contained(_, _, _)
first_contained(words, n, s) ==
    IF n > Len(words) THEN 0
    ELSE IF str_contains(words[n].chars, s) THEN n
    ELSE first_contained(words, n + 1, s)

\* (check_security without the tests after the loop)
agentic_security_output_of_patterns(patterns, credential_rules, n, c) ==
    IF n > 0
    THEN SecurityCheckOutput(TRUE,
             <<"Input contains potentially dangerous command pattern: ", patterns[n].pattern>>)
    ELSE SecurityCheckOutput(FALSE, <<"Input does not contain any known dangerous patterns">>)

\* agentic_devops check_security over a given list of dangerous patterns and of
\* credential tests: the patterns under re.IGNORECASE, the credential tests
\* without it
\* (n and c are the first pattern and the first credential test that match)
agentic_security_output(patterns, credential_rules, n, c) ==
    IF n > 0
    THEN SecurityCheckOutput(TRUE,
             <<"Input contains potentially dangerous command pattern: ", patterns[n].pattern>>)
    ELSE IF c > 0
    THEN SecurityCheckOutput(TRUE, credential_rules[c].reasoning)
    ELSE SecurityCheckOutput(FALSE, <<"Input does not contain any known dangerous patterns">>)

agentic_check_security_with(patterns, credential_rules, input_text) ==
    agentic_security_output(patterns, credential_rules,
                            first_match(patterns, 1, input_text, TRUE),
                            first_match(credential_rules, 1, input_text, FALSE))

agentic_check_security(input_text) ==
    agentic_check_security_with(agentic_dangerous_patterns, agentic_credential_rules, input_text)

\* agentic_devops check_sensitive_info over a given list of patterns
\* (n is the first pattern that matches)
agentic_sensitive_output(patterns, n) ==
    IF n > 0
    THEN SensitiveInfoOutput(TRUE,
             <<"Output contains sensitive information matching pattern: ", patterns[n].pattern>>)
    ELSE SensitiveInfoOutput(FALSE,
             <<"Output does not contain any known sensitive information patterns">>)

agentic_check_sensitive_info_with(patterns, output_text) ==
    agentic_sensitive_output(patterns, first_match(patterns, 1, output_text, TRUE))

agentic_check_sensitive_info(output_text) ==
    agentic_check_sensitive_info_with(agentic_sensitive_patterns, output_text)

\* devops check_security over given lists: the dangerous patterns on the lowered
\* text, then the first scope pattern that matches together with the first
\* destructive operation the lowered text contains (the inner loop does not
\* depend on the scope, so the first pair is the first of each)
\* (n, sc and op are the first pattern, scope and operation found)
devops_security_output(patterns, scopes, operations, n, sc, op) ==
    IF n > 0
    THEN SecurityCheckOutput(TRUE,
             <<"Input contains potentially dangerous pattern: '", patterns[n].pattern, "'">>)
    ELSE IF sc > 0 /\ op > 0
    THEN SecurityCheckOutput(TRUE,
             <<"Input combines excessive scope '", scopes[sc].pattern,
               "' with destructive operation '", operations[op].text, "'">>)
    ELSE SecurityCheckOutput(FALSE, <<"Input does not contain known dangerous patterns">>)

devops_check_security_lowered(patterns, scopes, operations, lowered) ==
    devops_security_output(patterns, scopes, operations,
                           first_match(patterns, 1, lowered, FALSE),
                           first_match(scopes, 1, lowered, FALSE),
                           first_contained(operations, 1, lowered))

devops_check_security_with(patterns, scopes, operations, input_text) ==
    devops_check_security_lowered(patterns, scopes, operations, str_lower(input_text))

devops_check_security(input_text) ==
    devops_check_security_with(devops_dangerous_patterns, devops_excessive_scope_patterns,
                               devops_destructive_operations, input_text)

\* ip.startswith(("10.", "172.", "192.168."))
private_prefixes == {<<"1", "0", ".">>, <<"1", "7", "2", ".">>, <<"1", "9", "2", ".", "1", "6", "8", ".">>}
is_private_ip(ip) == \E p \in private_prefixes : str_startswith(ip, p)

\* devops check_sensitive_info, one turn of the loop over sensitive_patterns:
\* whether the rule makes the function return
devops_matches_return(name, matches) ==
    /\ matches # <<>>
    /\ name = "IP Address" => \E i \in 1..Len(matches) : is_private_ip(matches[i])
    /\ ~(name = "Email Address" /\ Len(matches) = 1)

devops_rule_returns(rule, output_text) ==
    devops_matches_return(rule.name, re_findall(rule.re, output_text, FALSE))

RECURSIVE first_returning(_, _, _)
first_returning(rules, n, output_text) ==
    IF n > Len(rules) THEN 0
    ELSE IF devops_rule_returns(rules[n], output_text) THEN n
    ELSE first_returning(rules, n + 1, output_text)

\* devops check_sensitive_info, one turn of the loop over credential_mentions:
\* the lowered text holds the mention, and one of its lines holds the mention and
\* a '=' or a ':'
devops_mention_in_lines(mention, lines) ==
    \E i \in 1..Len(lines) :
        /\ str_contains(mention.chars, lines[i])
        /\ \E j \in 1..Len(lines[i]) : lines[i][j] \in {"=", ":"}

\* (the test without the loop over the lines: a '=' or a ':' anywhere in the text)
devops_mention_in_text(mention, lowered) ==
    /\ str_contains(mention.chars, lowered)
    /\ \E j \in 1..Len(lowered) : lowered[j] \in {"=", ":"}

devops_mention_returns(mention, lowered) ==
    /\ str_contains(mention.chars, lowered)
    /\ devops_mention_in_lines(mention, str_split_lines(lowered))

RECURSIVE first_mention(_, _, _)
first_mention(mentions, n, lowered) ==
    IF n > Len(mentions) THEN 0
    ELSE IF devops_mention_returns(mentions[n], lowered) THEN n
    ELSE first_mention(mentions, n + 1, lowered)

\* (n and m are the first pattern and the first mention that return)
devops_sensitive_output(patterns, mentions, n, m) ==
    IF n > 0
    THEN SensitiveInfoOutput(TRUE, <<"Output contains sensitive information: ", patterns[n].name>>)
    ELSE IF m > 0
    THEN SensitiveInfoOutput(TRUE, <<"Output appears to contain ", mentions[m].text>>)
    ELSE SensitiveInfoOutput(FALSE,
             <<"Output does not contain known patterns of sensitive information">>)

devops_check_sensitive_info_with(patterns, mentions, output_text) ==
    devops_sensitive_output(patterns, mentions,
                            first_returning(patterns, 1, output_text),
                            first_mention(mentions, 1, str_lower(output_text)))

devops_check_sensitive_info(output_text) ==
    devops_check_sensitive_info_with(devops_sensitive_patterns, devops_credential_mentions,
                                     output_text)

\* the two packages that carry a guardrails.py
Packages == {"agentic_devops", "devops"}

check_security(pkg, input_text) ==
    IF pkg = "agentic_devops" THEN agentic_check_security(input_text)
    ELSE devops_check_security(input_text)

check_sensitive_info(pkg, output_text) ==
    IF pkg = "agentic_devops" THEN agentic_check_sensitive_info(output_text)
    ELSE devops_check_sensitive_info(output_text)

\* agents.GuardrailFunctionOutput; message is None where the source gives none
GuardrailFunctionOutput(tripwire_triggered, output_info, message) ==
    [tripwire_triggered |-> tripwire_triggered, output_info |-> output_info, message |-> message]

NoMessage == <<>>

\* (a hook that reports the verdict and never trips)
security_guardrail_output_untripped(pkg, check_result) ==
    GuardrailFunctionOutput(FALSE, check_result, NoMessage)

\* security_guardrail (agentic_devops) and security_guardrail_function (devops)
security_guardrail_output(pkg, check_result) ==
    IF pkg = "agentic_devops"
    THEN GuardrailFunctionOutput(check_result.is_malicious, check_result, NoMessage)
    ELSE IF check_result.is_malicious
    THEN GuardrailFunctionOutput(TRUE, check_result,
             <<"I cannot perform this operation as it appears to be potentially harmful. Reason: ">>
             \o check_result.reasoning
             \o <<". Please modify your request to be more specific and avoid operations that could cause widespread damage.">>)
    ELSE GuardrailFunctionOutput(FALSE, check_result, NoMessage)

security_guardrail(pkg, input_text) ==
    security_guardrail_output(pkg, check_security(pkg, input_text))

\* sensitive_info_guardrail (agentic_devops) and sensitive_info_guardrail_function
\* (devops)
sensitive_info_guardrail_output(pkg, check_result) ==
    IF pkg = "agentic_devops"
    THEN GuardrailFunctionOutput(check_result.contains_sensitive_info, check_result, NoMessage)
    ELSE IF check_result.contains_sensitive_info
    THEN GuardrailFunctionOutput(TRUE, check_result,
             <<"I've detected sensitive information in my response and have redacted it for security. Please be cautious about requesting sensitive data such as credentials, tokens, or private keys.">>)
    ELSE GuardrailFunctionOutput(FALSE, check_result, NoMessage)

sensitive_info_guardrail(pkg, output_text) ==
    sensitive_info_guardrail_output(pkg, check_sensitive_info(pkg, output_text))

(***************************************************************************)
(* The texts the guardrail functions are tried on.                         *)
(***************************************************************************)
\* a request, a command, a credential, an address or a line mentioning a secret
Phrase ==
    [ list_instances |->
          <<"l", "i", "s", "t", " ", "a", "l", "l", " ", "m", "y", " ", "e", "c", "2", " ", "i",
          "n", "s", "t", "a", "n", "c", "e", "s">>,
      show_regions |->
          <<"s", "h", "o", "w", " ", "m", "e", " ", "a", "l", "l", " ", "r", "e", "g", "i", "o",
          "n", "s">>,
      rm_root |->
          <<"r", "m", " ", "-", "r", "f", " ", "/">>,
      rm_home |->
          <<"r", "m", " ", "-", "r", "f", " ", "~">>,
      disk_wipe |->
          <<"d", "d", " ", "i", "f", "=", "/", "d", "e", "v", "/", "z", "e", "r", "o", " ", "o",
          "f", "=", "/", "d", "e", "v", "/", "s", "d", "a">>,
      fork_bomb |->
          <<":", "(", ")", "{", " ", ":", "|", ":", "&", " ", "}", ";", ":">>,
      fork_bomb_without_parens |->
          <<":", "{", " ", ":", "|", ":", "&", " ", "}", ";", ":">>,
      wget_bash |->
          <<"w", "g", "e", "t", " ", "h", "t", "t", "p", ":", "/", "/", "x", " ", "|", " ", "b",
          "a", "s", "h">>,
      curl_bash |->
          <<"c", "u", "r", "l", " ", "h", "t", "t", "p", ":", "/", "/", "x", " ", "|", " ", "b",
          "a", "s", "h">>,
      rm_no_preserve |->
          <<"s", "u", "d", "o", " ", "r", "m", " ", "-", "r", "f", " ", "-", "-", "n", "o", "-",
          "p", "r", "e", "s", "e", "r", "v", "e", "-", "r", "o", "o", "t", " ", "/">>,
      mkfs |->
          <<"m", "k", "f", "s", " ", "/", "d", "e", "v", "/", "s", "d", "b">>,
      drop_table |->
          <<"D", "R", "O", "P", " ", "T", "A", "B", "L", "E", " ", "u", "s", "e", "r", "s">>,
      delete_from |->
          <<"D", "E", "L", "E", "T", "E", " ", "F", "R", "O", "M", " ", "u", "s", "e", "r", "s",
          " ", "W", "H", "E", "R", "E", " ", "i", "d", "=", "1">>,
      shutdown |->
          <<"s", "h", "u", "t", "d", "o", "w", "n", " ", "-", "h", " ", "n", "o", "w">>,
      halt |->
          <<"h", "a", "l", "t">>,
      poweroff |->
          <<"p", "o", "w", "e", "r", "o", "f", "f">>,
      passwd_root |->
          <<"s", "u", "d", "o", " ", "p", "a", "s", "s", "w", "d", " ", "r", "o", "o", "t">>,
      chmod_root |->
          <<"c", "h", "m", "o", "d", " ", "-", "R", " ", "7", "7", "7", " ", "/">>,
      chown_root |->
          <<"c", "h", "o", "w", "n", " ", "-", "R", " ", "r", "o", "o", "t", ":", "r", "o", "o",
          "t", " ", "/">>,
      rm_root_then_halt |->
          <<"r", "m", " ", "-", "r", "f", " ", "/", " ", "&", "&", " ", "h", "a", "l", "t">>,
      delete_all_everywhere |->
          <<"d", "e", "l", "e", "t", "e", " ", "a", "l", "l", " ", "i", "n", "s", "t", "a", "n",
          "c", "e", "s", " ", "i", "n", " ", "a", "l", "l", " ", "r", "e", "g", "i", "o", "n",
          "s">>,
      drop_database |->
          <<"d", "r", "o", "p", " ", "d", "a", "t", "a", "b", "a", "s", "e", " ", "p", "r", "o",
          "d">>,
      delete_bucket |->
          <<"d", "e", "l", "e", "t", "e", " ", "b", "u", "c", "k", "e", "t", " ", "l", "o", "g",
          "s">>,
      all_accounts |->
          <<"c", "h", "e", "c", "k", " ", "a", "l", "l", " ", " ", "a", "c", "c", "o", "u", "n",
          "t", "s">>,
      all_resources |->
          <<"t", "a", "g", " ", "a", "l", "l", " ", "r", "e", "s", "o", "u", "r", "c", "e", "s">>,
      all_instances |->
          <<"d", "e", "s", "c", "r", "i", "b", "e", " ", "a", "l", "l", " ", "i", "n", "s", "t",
          "a", "n", "c", "e", "s">>,
      all_databases |->
          <<"b", "a", "c", "k", " ", "u", "p", " ", "a", "l", "l", " ", "d", "a", "t", "a", "b",
          "a", "s", "e", "s">>,
      all_repositories |->
          <<"c", "l", "o", "n", "e", " ", "a", "l", "l", " ", "r", "e", "p", "o", "s", "i", "t",
          "o", "r", "i", "e", "s">>,
      delete_file |->
          <<"d", "e", "l", "e", "t", "e", " ", "t", "h", "e", " ", "o", "l", "d", " ", "l", "o",
          "g">>,
      remove_tag |->
          <<"r", "e", "m", "o", "v", "e", " ", "t", "h", "e", " ", "t", "a", "g">>,
      terminate_one |->
          <<"t", "e", "r", "m", "i", "n", "a", "t", "e", " ", "i", "n", "s", "t", "a", "n", "c",
          "e", " ", "i", "-", "0", "a">>,
      stop_server |->
          <<"s", "t", "o", "p", " ", "t", "h", "e", " ", "w", "e", "b", " ", "s", "e", "r", "v",
          "e", "r">>,
      kill_job |->
          <<"k", "i", "l", "l", " ", "t", "h", "e", " ", "j", "o", "b">>,
      access_key_id_name |->
          <<"A", "W", "S", "_", "A", "C", "C", "E", "S", "S", "_", "K", "E", "Y", "_", "I", "D">>,
      secret_access_key_name |->
          <<"e", "x", "p", "o", "r", "t", " ", "A", "W", "S", "_", "S", "E", "C", "R", "E", "T",
          "_", "A", "C", "C", "E", "S", "S", "_", "K", "E", "Y">>,
      github_token |->
          <<"g", "h", "p", "_", "a", "B", "3", "d", "E", "6", "g", "H", "9", "a", "B", "3", "d",
          "E", "6", "g", "H", "9", "a", "B", "3", "d", "E", "6", "g", "H", "9", "a", "B", "3", "d",
          "E", "6", "g", "H", "9">>,
      rsa_header |->
          <<"-", "-", "-", "-", "-", "B", "E", "G", "I", "N", " ", "R", "S", "A", " ", "P", "R",
          "I", "V", "A", "T", "E", " ", "K", "E", "Y", "-", "-", "-", "-", "-">>,
      pkcs8_header |->
          <<"-", "-", "-", "-", "-", "B", "E", "G", "I", "N", " ", "P", "R", "I", "V", "A", "T",
          "E", " ", "K", "E", "Y", "-", "-", "-", "-", "-">>,
      ip_10 |->
          <<"1", "0", ".", "1", ".", "2", ".", "3">>,
      ip_172_16 |->
          <<"1", "7", "2", ".", "1", "6", ".", "0", ".", "1">>,
      ip_172_31 |->
          <<"1", "7", "2", ".", "3", "1", ".", "2", "5", "5", ".", "2", "5", "5">>,
      ip_192_168 |->
          <<"1", "9", "2", ".", "1", "6", "8", ".", "1", ".", "1">>,
      ip_8 |->
          <<"8", ".", "8", ".", "8", ".", "8">>,
      ip_172_1 |->
          <<"1", "7", "2", ".", "1", ".", "2", ".", "3">>,
      ip_172_32 |->
          <<"1", "7", "2", ".", "3", "2", ".", "0", ".", "1">>,
      ip_210 |->
          <<"2", "1", "0", ".", "1", ".", "2", ".", "3">>,
      contact |->
          <<"c", "o", "n", "t", "a", "c", "t", ":", " ", "j", "a", "n", "e", "@", "e", "x", "a",
          "m", "p", "l", "e", ".", "c", "o", "m">>,
      email |->
          <<"j", "a", "n", "e", "@", "e", "x", "a", "m", "p", "l", "e", ".", "c", "o", "m">>,
      password_colon |->
          <<"p", "a", "s", "s", "w", "o", "r", "d", ":", " ", "h", "u", "n", "t", "e", "r", "2">>,
      password_equals |->
          <<"p", "a", "s", "s", "w", "o", "r", "d", "=", "h", "u", "n", "t", "e", "r", "2">>,
      password_prose |->
          <<"t", "h", "e", " ", "p", "a", "s", "s", "w", "o", "r", "d", " ", "w", "a", "s", " ",
          "r", "e", "s", "e", "t">>,
      token_prose |->
          <<"t", "h", "e", " ", "t", "o", "k", "e", "n", " ", "e", "x", "p", "i", "r", "e", "d">>,
      token_embedded |->
          <<"t", "o", "k", "e", "n", "i", "z", "e", "r", ":", " ", "f", "a", "s", "t">>,
      token_colon_before |->
          <<"t", "i", "m", "e", ":", " ", "5", "p", "m", " ", "t", "h", "e", " ", "t", "o", "k",
          "e", "n", " ", "e", "x", "p", "i", "r", "e", "d">>,
      token_colon_other_line |->
          <<"t", "h", "e", " ", "t", "o", "k", "e", "n", " ", "e", "x", "p", "i", "r", "e", "d",
          "\n", "e", "t", "a", ":", " ", "n", "o", "o", "n">>,
      api_key_colon |->
          <<"a", "p", "i", " ", "k", "e", "y", ":", " ", "a", "b", "c", "1", "2", "3">>,
      secret_colon |->
          <<"s", "e", "c", "r", "e", "t", ":", " ", "x", "y", "z">>,
      credential_prose |->
          <<"r", "o", "t", "a", "t", "e", " ", "e", "a", "c", "h", " ", "c", "r", "e", "d", "e",
          "n", "t", "i", "a", "l">>,
      access_key |->
          <<"A", "K", "I", "A", "I", "O", "S", "F", "O", "D", "N", "N", "7", "E", "X", "A", "M",
          "P", "L", "E">>,
      secret_key |->
          <<"w", "J", "a", "l", "r", "X", "U", "t", "n", "F", "E", "M", "I", "/", "K", "7", "M",
          "D", "E", "N", "G", "/", "b", "P", "x", "R", "f", "i", "C", "Y", "E", "X", "A", "M", "P",
          "L", "E", "K", "E", "Y">>,
      github_pat |->
          <<"g", "i", "t", "h", "u", "b", "_", "p", "a", "t", "_", "a", "1", "B", "2", "c", "3",
          "D", "4", "e", "5", "F", "a", "1", "B", "2", "c", "3", "D", "4", "e", "5", "F">>,
      jdbc |->
          <<"j", "d", "b", "c", ":", "m", "y", "s", "q", "l", ":", "/", "/", "d", "b">> ]

\* what else a text may hold after its phrase
Companion ==
    [ in_all_regions |->
          <<"i", "n", " ", "a", "l", "l", " ", "r", "e", "g", "i", "o", "n", "s">>,
      terminate |->
          <<"t", "e", "r", "m", "i", "n", "a", "t", "e">>,
      bob |->
          <<"b", "o", "b", "@", "e", "x", "a", "m", "p", "l", "e", ".", "o", "r", "g">> ]

\* how many companions follow the phrase of a text, at most
MaxCompanions == 1

Phrases == {Phrase[k] : k \in DOMAIN Phrase}
Companions == {Companion[k] : k \in DOMAIN Companion}

\* the texts that begin with one of the given texts and go on with at most n
\* companions, each after one space
RECURSIVE FollowedBy(_, _)
FollowedBy(starts, n) ==
    IF n = 0 THEN starts
    ELSE starts \cup {t \o <<" ">> \o c : t \in FollowedBy(starts, n - 1), c \in Companions}

GuardrailTexts == FollowedBy(Phrases, MaxCompanions)

(***************************************************************************)
(* The guardrail state machines.  In the first a caller invokes one of the *)
(* four guardrail functions of one package on one text and observes what   *)
(* it returns; in the second the guardrails and the error classification   *)
(* of several agent turns are in flight at once.                           *)
(***************************************************************************)
\* the name the guardrail functions log, Agent(name="EC2 Agent")
agent_name == "EC2 Agent"

LogRecord(level, message) == [level |-> level, message |-> message]

\* what security_guardrail / security_guardrail_function write to the logger
security_guardrail_log(pkg, check_result) ==
    IF pkg = "agentic_devops"
    THEN <<LogRecord("INFO", <<"Running security guardrail check">>),
           IF check_result.is_malicious
           THEN LogRecord("WARNING", <<"Security guardrail triggered: ">> \o check_result.reasoning)
           ELSE LogRecord("INFO", <<"Security guardrail check passed">>)>>
    ELSE <<LogRecord("INFO", <<"Running security guardrail for agent: ", agent_name>>)>> \o
         (IF check_result.is_malicious
          THEN <<LogRecord("WARNING", <<"Security guardrail triggered: ">> \o check_result.reasoning)>>
          ELSE <<>>)

\* what sensitive_info_guardrail / sensitive_info_guardrail_function write to the
\* logger
sensitive_info_guardrail_log(pkg, check_result) ==
    IF pkg = "agentic_devops"
    THEN <<LogRecord("INFO", <<"Running sensitive information guardrail check">>),
           IF check_result.contains_sensitive_info
           THEN LogRecord("WARNING",
                    <<"Sensitive information guardrail triggered: ">> \o check_result.reasoning)
           ELSE LogRecord("INFO", <<"Sensitive information guardrail check passed">>)>>
    ELSE <<LogRecord("INFO", <<"Running sensitive information guardrail for agent: ", agent_name>>)>> \o
         (IF check_result.contains_sensitive_info
          THEN <<LogRecord("WARNING",
                     <<"Sensitive information guardrail triggered: ">> \o check_result.reasoning)>>
          ELSE <<>>)

NoPackage == "none"
NoVerdict == [reasoning |-> <<>>]
NoGuardrailOutput == [message |-> NoMessage]

\* no guardrail function has been invoked
GuardrailIdle ==
    /\ package = NoPackage
    /\ call = "idle"
    /\ stage = "idle"
    /\ checked_text = <<>>
    /\ verdict = NoVerdict
    /\ guardrail_output = NoGuardrailOutput
    /\ logged = <<>>

\* literal parts of the log lines of handle_error
LogText ==
    [ aws_error_during |-> <<"A", "W", "S", " ", "e", "r", "r", "o", "r", " ", "d", "u", "r", "i", "n", "g", " ">>,
      unexpected_error_during |->
          <<"U", "n", "e", "x", "p", "e", "c", "t", "e", "d", " ", "e", "r", "r", "o", "r", " ",
          "d", "u", "r", "i", "n", "g", " ">>,
      colon |-> <<":", " ">>,
      dash |-> <<" ", "-", " ">> ]

\* what handle_error writes to the logger: nothing for a code it knows or for
\* NoCredentialsError, one ERROR line otherwise
handle_error_log(err, op) ==
    IF err.type = "ClientError"
    THEN LET error_code == dict_get(err.code, Str(<<>>))
         IN  IF \E codes \in {NotFoundCodes, PermissionCodes, ValidationCodes, ThrottlingCodes,
                              LimitCodes} : code_in(error_code, codes)
             THEN <<>>
             ELSE <<LogRecord("ERROR", LogText.aws_error_during \o op \o LogText.colon
                                       \o error_code.v \o LogText.dash \o str_error(err))>>
    ELSE IF err.type = "NoCredentialsError"
    THEN <<>>
    ELSE <<LogRecord("ERROR", LogText.unexpected_error_during \o op \o LogText.colon
                              \o str_error(err))>>

\* the agent turns that may be in flight together
Turns == {1, 2}

\* what the turns feed in: user inputs, agent outputs and the failures of a tool
TurnInputTexts == {Phrase.list_instances, Phrase.rm_root}
TurnOutputTexts == {Phrase.ip_8, Phrase.password_colon}
TurnErrors ==
    {ClientError(Str(Code.AccessDenied), Str(Frag.not_authorized), Op.DescribeInstances),
     OtherException(Frag.Timeout)}

NoInvocation ==
    [stage |-> "idle", call |-> "none", package |-> NoPackage, input |-> <<>>, output |-> <<>>]
Invocation(call_name, pkg, input) ==
    [stage |-> "called", call |-> call_name, package |-> pkg, input |-> input, output |-> <<>>]

\* no turn has invoked anything
TurnsIdle == turns = [t \in Turns |-> NoInvocation]

\* (a guardrail that remembers: once a warning is in the log the input guardrail
\* trips on every text)
invocation_output_after_warning(inv) ==
    CASE inv.call = "security_guardrail" ->
             IF \E i \in 1..Len(logged) : logged[i].level = "WARNING"
             THEN security_guardrail(inv.package, Phrase.rm_root)
             ELSE security_guardrail(inv.package, inv.input)
      [] inv.call = "sensitive_info_guardrail" -> sensitive_info_guardrail(inv.package, inv.input)
      [] inv.call = "handle_error" -> handle_error(inv.input, Op.stop_instance)

\* what an invocation returns (or raises) and what it logs: a function of the
\* invocation's own arguments
invocation_output(inv) ==
    CASE inv.call = "security_guardrail" -> security_guardrail(inv.package, inv.input)
      [] inv.call = "sensitive_info_guardrail" -> sensitive_info_guardrail(inv.package, inv.input)
      [] inv.call = "handle_error" -> handle_error(inv.input, Op.stop_instance)

invocation_log(inv, out) ==
    CASE inv.call = "security_guardrail" -> security_guardrail_log(inv.package, out.output_info)
      [] inv.call = "sensitive_info_guardrail" ->
             sensitive_info_guardrail_log(inv.package, out.output_info)
      [] inv.call = "handle_error" -> handle_error_log(inv.input, Op.stop_instance)

(***************************************************************************)
(* The components outside the classifier and the guardrails, at rest.      *)
(***************************************************************************)
\* the command line has no error in hand
CliIdle == cli = [stage |-> "idle"]

\* how many threads call get_credential_manager
NumThreads == 2

\* how many times set_credential_manager is called, at most
MaxReplacements == 1

Threads == 1..NumThreads

\* _credential_manager = None
NoManager == [by |-> "none", n |-> 0]

\* the n-th CredentialManager made by `by`: by get_credential_manager in thread n,
\* or by the n-th caller of set_credential_manager
Manager(by, n) == [by |-> by, n |-> n]

\* a thread outside get_credential_manager
ThreadIdle == [pc |-> "idle", got |-> NoManager]

\* the module as imported: no manager, no call in progress; `created` and
\* `observed` record the managers the lazy initialization made and the managers
\* the calls returned, each with the number of replacements before it
CredentialsIdle ==
    credentials = [manager |-> NoManager, replaced |-> 0,
                   thread |-> [t \in Threads |-> ThreadIdle],
                   created |-> {}, observed |-> {}]

\* how many ticks the clock makes
MaxTime == 3

\* the cache_ttl of a call, in ticks
CacheTtlTicks == 2

\* the per_page of a listing
PerPage == 2

\* the page from which on the server has no full page left
MaxPages == 3

\* how many times a resource is changed on the server, at most
MaxMutations == 1

\* params of a request: the per_page and page asked for, both 0 for none
NoParams == <<0, 0>>

NoRequest ==
    [method |-> "", url |-> "", params |-> NoParams, use_cache |-> FALSE, cache_ttl |-> 0,
     raw_response |-> FALSE]

\* no result yet
NoGhResult ==
    [how |-> "none", value |-> <<>>,
     exc |-> [family |-> "Exception", cls |-> "none", message |-> <<>>, suggestion |-> Missing]]

\* no call of list_repositories in progress
NoListing ==
    [stage |-> "idle", per_page |-> 0, use_cache |-> FALSE, page |-> 0, all_repos |-> <<>>,
     asked |-> <<>>, received |-> <<>>, result |-> NoGhResult]

NoResponse ==
    [kind |-> "none", remaining |-> Missing, reset |-> Missing, status |-> 0, text |-> <<>>,
     body |-> "none"]

\* a service just constructed: self.cache = {}, no request made, the clock at
\* 0 and every resource of the server as it was made
GitHubIdle ==
    github = [stage |-> "idle", cache |-> << >>, now |-> 0,
              version |-> [u \in {"repos/o/r", "user"} |-> 0],
              call |-> NoRequest, sent |-> FALSE, response |-> NoResponse,
              result |-> NoGhResult, list |-> NoListing]

\* values of a configuration: a scalar, None, a dict the configuration holds
\* itself, or a reference to one of the dict objects DEFAULT_CONFIG is made of
Scalar(s) == [t |-> "val", v |-> s, d |-> << >>]
NoneValue == [t |-> "none", v |-> "", d |-> << >>]
Dict(d) == [t |-> "dict", v |-> "", d |-> d]
Ref(name) == [t |-> "ref", v |-> name, d |-> << >>]

\* the nested dict objects of DEFAULT_CONFIG as the module creates them,
\* config.py lines 19-36
DefaultObjects ==
    [aws |-> [region |-> Scalar("us-west-2"), profile |-> NoneValue, tags |-> Ref("tags")],
     tags |-> [ManagedBy |-> Scalar("DevOpsAgent")],
     github |-> [organization |-> NoneValue, api_url |-> Scalar("https://api.github.com")],
     logging |-> [level |-> Scalar("INFO"),
                  format |-> Scalar("%(asctime)s - %(name)s - %(levelname)s - %(message)s")]]

\* DEFAULT_CONFIG itself: its keys refer to the nested objects
DEFAULT_CONFIG == Dict([aws |-> Ref("aws"), github |-> Ref("github"), logging |-> Ref("logging")])

NoConfigCall ==
    [op |-> "none", config_file |-> "none", env |-> "none", merge_defaults |-> FALSE,
     key_path |-> <<>>]

\* the module as imported: _config = {}, _config_loaded = False
ConfigIdle ==
    config = [top |-> Dict(<< >>), loaded |-> FALSE, objects |-> DefaultObjects,
              last |-> NoConfigCall]

\* no call of the service in progress
NoEc2Call ==
    [op |-> "none", pc |-> "idle", instance_type |-> "", wait |-> FALSE, before |-> "",
     was_running |-> FALSE, done |-> <<>>, modified_in |-> "", accepted |-> FALSE,
     fallback |-> FALSE, rebooted |-> FALSE, result |-> "none"]

\* an instance that runs, and no call in progress; user_data tells whether the
\* deployment script has been written into the user data
Ec2Idle ==
    ec2 = [state |-> "running", type |-> "t2.micro", user_data |-> FALSE, call |-> NoEc2Call]

(***************************************************************************)
(* The state machine: a caller invokes one entry point, observes what it   *)
(* raises or returns, and goes on to the next call.                        *)
(***************************************************************************)
NoFunction == Function(<<>>, None)
NoBody == BodyReturns(<<>>)
NoResult == [how |-> "none", exc |-> NoException, value |-> <<>>]

Init ==
    /\ entry = "idle"
    /\ error = NoError
    /\ operation = <<>>
    /\ func = NoFunction
    /\ service = TRUE
    /\ body = NoBody
    /\ result = NoResult
    /\ GuardrailIdle
    /\ TurnsIdle
    /\ CliIdle
    /\ CredentialsIdle
    /\ GitHubIdle
    /\ ConfigIdle
    /\ Ec2Idle

\* self.handle_error(e, operation), as _verify_access, wait_for and get_key_pair
\* call it
CallHandleError ==
    /\ entry = "idle"
    /\ \E e \in RawErrors, op \in OperationNames :
          /\ entry' = "handle_error"
          /\ error' = e
          /\ operation' = op
          /\ result' = handle_error(e, op)
    /\ UNCHANGED <<func, service, body>>
    /\ UNCHANGED <<guardrail_vars, later_vars>>

\* a call of a function decorated with @aws_operation
CallOperation ==
    /\ entry = "idle"
    /\ \E fn \in Functions, b \in Bodies, s \in BOOLEAN :
          /\ entry' = "aws_operation"
          /\ func' = fn
          /\ service' = s
          /\ body' = b
          /\ error' = b.raw
          /\ operation' = op_name_of(fn)
          /\ result' = aws_operation(fn, s, b)
    /\ UNCHANGED <<guardrail_vars, later_vars>>

\* EC2Service.get_instance(instance_id)
CallGetInstance ==
    /\ entry = "idle"
    /\ \E id \in InstanceIds, d \in Describes :
          /\ entry' = "get_instance"
          /\ func' = get_instance_fn
          /\ service' = TRUE
          /\ body' = d
          /\ error' = d.raw
          /\ operation' = Op.get_instance
          /\ result' = get_instance(id, d)
    /\ UNCHANGED <<guardrail_vars, later_vars>>

\* the caller has handled the outcome
Done ==
    /\ entry # "idle"
    /\ entry' = "idle"
    /\ error' = NoError
    /\ operation' = <<>>
    /\ func' = NoFunction
    /\ service' = TRUE
    /\ body' = NoBody
    /\ result' = NoResult
    /\ UNCHANGED <<guardrail_vars, later_vars>>

Next == CallHandleError \/ CallOperation \/ CallGetInstance \/ Done

Spec == Init /\ [][Next]_all_vars

\* a caller invokes function fn of a package on a text
Invoke(fn) ==
    /\ stage = "idle"
    /\ \E pkg \in Packages, t \in GuardrailTexts :
          /\ package' = pkg
          /\ checked_text' = t
    /\ call' = fn
    /\ stage' = "called"
    /\ UNCHANGED <<verdict, guardrail_output, logged, turns>>
    /\ UNCHANGED <<vars, later_vars>>

\* check_security(input_text)
CallCheckSecurity == Invoke("check_security")

CheckSecurityReturns ==
    /\ stage = "called"
    /\ call = "check_security"
    /\ stage' = "returned"
    /\ verdict' = check_security(package, checked_text)
    /\ UNCHANGED <<package, call, checked_text, guardrail_output, logged, turns>>
    /\ UNCHANGED <<vars, later_vars>>

\* check_sensitive_info(output_text)
CallCheckSensitiveInfo == Invoke("check_sensitive_info")

CheckSensitiveInfoReturns ==
    /\ stage = "called"
    /\ call = "check_sensitive_info"
    /\ stage' = "returned"
    /\ verdict' = check_sensitive_info(package, checked_text)
    /\ UNCHANGED <<package, call, checked_text, guardrail_output, logged, turns>>
    /\ UNCHANGED <<vars, later_vars>>

\* the input guardrail: security_guardrail(ctx, agent, input_text)
CallSecurityGuardrail == Invoke("security_guardrail")

SecurityGuardrailReturns ==
    /\ stage = "called"
    /\ call = "security_guardrail"
    /\ stage' = "returned"
    /\ \E out \in {security_guardrail(package, checked_text)} :
          /\ verdict' = out.output_info
          /\ guardrail_output' = out
          /\ logged' = security_guardrail_log(package, out.output_info)
    /\ UNCHANGED <<package, call, checked_text, turns>>
    /\ UNCHANGED <<vars, later_vars>>

\* the output guardrail: sensitive_info_guardrail(ctx, agent, output_text)
CallSensitiveInfoGuardrail == Invoke("sensitive_info_guardrail")

SensitiveInfoGuardrailReturns ==
    /\ stage = "called"
    /\ call = "sensitive_info_guardrail"
    /\ stage' = "returned"
    /\ \E out \in {sensitive_info_guardrail(package, checked_text)} :
          /\ verdict' = out.output_info
          /\ guardrail_output' = out
          /\ logged' = sensitive_info_guardrail_log(package, out.output_info)
    /\ UNCHANGED <<package, call, checked_text, turns>>
    /\ UNCHANGED <<vars, later_vars>>

\* the caller has taken the result
GuardrailDone ==
    /\ stage = "returned"
    /\ package' = NoPackage
    /\ call' = "idle"
    /\ stage' = "idle"
    /\ checked_text' = <<>>
    /\ verdict' = NoVerdict
    /\ guardrail_output' = NoGuardrailOutput
    /\ logged' = <<>>
    /\ UNCHANGED turns
    /\ UNCHANGED <<vars, later_vars>>

GuardrailNext ==
    \/ CallCheckSecurity
    \/ CheckSecurityReturns
    \/ CallCheckSensitiveInfo
    \/ CheckSensitiveInfoReturns
    \/ CallSecurityGuardrail
    \/ SecurityGuardrailReturns
    \/ CallSensitiveInfoGuardrail
    \/ SensitiveInfoGuardrailReturns
    \/ GuardrailDone

GuardrailSpec == Init /\ [][GuardrailNext]_all_vars

\* turn t hands its user input to the input guardrail
StartSecurityGuardrail(t) ==
    /\ turns[t].stage = "idle"
    /\ \E pkg \in Packages, s \in TurnInputTexts :
          turns' = [turns EXCEPT ![t] = Invocation("security_guardrail", pkg, s)]
    /\ UNCHANGED <<package, call, stage, checked_text, verdict, guardrail_output, logged>>
    /\ UNCHANGED <<vars, later_vars>>

\* turn t hands the agent's output to the output guardrail
StartSensitiveInfoGuardrail(t) ==
    /\ turns[t].stage = "idle"
    /\ \E pkg \in Packages, s \in TurnOutputTexts :
          turns' = [turns EXCEPT ![t] = Invocation("sensitive_info_guardrail", pkg, s)]
    /\ UNCHANGED <<package, call, stage, checked_text, verdict, guardrail_output, logged>>
    /\ UNCHANGED <<vars, later_vars>>

\* a tool of turn t failed and hands the exception to handle_error
StartHandleError(t) ==
    /\ turns[t].stage = "idle"
    /\ \E e \in TurnErrors :
          turns' = [turns EXCEPT ![t] = Invocation("handle_error", "devops", e)]
    /\ UNCHANGED <<package, call, stage, checked_text, verdict, guardrail_output, logged>>
    /\ UNCHANGED <<vars, later_vars>>

\* the invocation of turn t runs to its end
ReturnInvocation(t) ==
    /\ turns[t].stage = "called"
    /\ \E out \in {invocation_output(turns[t])} :
           /\ turns' = [turns EXCEPT ![t].stage = "returned", ![t].output = out]
           /\ logged' = invocation_log(turns[t], out)
    /\ UNCHANGED <<package, call, stage, checked_text, verdict, guardrail_output>>
    /\ UNCHANGED <<vars, later_vars>>

\* turn t has taken the result
FinishInvocation(t) ==
    /\ turns[t].stage = "returned"
    /\ turns' = [turns EXCEPT ![t] = NoInvocation]
    /\ UNCHANGED <<package, call, stage, checked_text, verdict, guardrail_output, logged>>
    /\ UNCHANGED <<vars, later_vars>>

StartSecurityGuardrailOfATurn == \E t \in Turns : StartSecurityGuardrail(t)
StartSensitiveInfoGuardrailOfATurn == \E t \in Turns : StartSensitiveInfoGuardrail(t)
StartHandleErrorOfATurn == \E t \in Turns : StartHandleError(t)
ReturnInvocationOfATurn == \E t \in Turns : ReturnInvocation(t)
FinishInvocationOfATurn == \E t \in Turns : FinishInvocation(t)

TurnsNext ==
    \/ StartSecurityGuardrailOfATurn
    \/ StartSensitiveInfoGuardrailOfATurn
    \/ StartHandleErrorOfATurn
    \/ ReturnInvocationOfATurn
    \/ FinishInvocationOfATurn

TurnsSpec == Init /\ [][TurnsNext]_all_vars

(***************************************************************************)
(* The claims about the error classifier.                                  *)
(***************************************************************************)
IsPrefix(p, s) == MatchesAt(s, p, 1)

\* the caller of handle_error has its outcome in hand
Classified == entry = "handle_error"

\* the raw error is a ClientError whose code is the string c
HasCode(c) == error.type = "ClientError" /\ error.code.t = "str" /\ error.code.v = c

\* the Message of the raw ClientError, "" when it holds none
RawMessage == dict_get(error.message, Str(<<>>)).v

\* C1, as stated: handle_error never raises, it completes by returning an error
\* value to its caller.
C1_ReturnsInsteadOfRaising == Classified => result.how = "return"

\* C1, amended: handle_error never returns normally and never lets the raw
\* exception through: for every error and operation name it completes by
\* raising an AWSServiceError (or subclass) with a non-empty message.
C1_AlwaysRaisesDomainError ==
    Classified =>
        /\ result.how = "raise"
        /\ result.exc.cls \in DomainClasses
        /\ result.exc.message # <<>>

\* a ClientError whose code is not even a string has been classified
C1_Witness ==
    /\ Classified
    /\ error.type = "ClientError"
    /\ error.code.t = "int"
    /\ result.how = "raise"

\* the raw error is a non-structured exception other than NoCredentialsError
\* whose text mentions neither "connection" nor "timeout"
PlainUnexpected ==
    /\ error.type \notin {"ClientError", "NoCredentialsError"}
    /\ ~ str_contains(Text.connection, str_lower(str_error(error)))
    /\ ~ str_contains(Text.timeout, str_lower(str_error(error)))

\* C2, as stated: every error the classifier produces carries a non-empty
\* suggestion.
C2_SuggestionNeverEmpty ==
    (Classified /\ result.how = "raise") => str_truthy(result.exc.suggestion)

\* C2, amended: the suggestion of a classified error is absent (None) in exactly
\* two cases, a ResourceNotFoundError with no extractable resource type and a
\* base AWSServiceError made from a non-structured exception that is neither a
\* NoCredentialsError nor network related; in every other case it is a
\* non-empty string.
C2_SuggestionAbsentExactlyWhen ==
    (Classified /\ result.how = "raise") =>
        /\ result.exc.suggestion = None \/ str_truthy(result.exc.suggestion)
        /\ result.exc.suggestion = None <=>
              \/ /\ result.exc.cls = "ResourceNotFoundError"
                 /\ result.exc.resource_type = None
              \/ /\ result.exc.cls = "AWSServiceError"
                 /\ PlainUnexpected

\* a not-found error with no resource type came out without a suggestion
C2_Witness ==
    /\ Classified
    /\ HasCode(Code.ResourceNotFoundException)
    /\ result.exc.cls = "ResourceNotFoundError"
    /\ result.exc.suggestion = None

\* the table of C3: the class each listed code is classified as
C3_Listed ==
    {<<Code.ResourceNotFoundException, "ResourceNotFoundError">>,
     <<Code.NoSuchEntity, "ResourceNotFoundError">>,
     <<Code.InvalidInstanceID_NotFound, "ResourceNotFoundError">>,
     <<Code.AccessDenied, "PermissionDeniedError">>,
     <<Code.UnauthorizedOperation, "PermissionDeniedError">>,
     <<Code.Throttling, "RateLimitError">>,
     <<Code.ThrottlingException, "RateLimitError">>,
     <<Code.RequestLimitExceeded, "RateLimitError">>,
     <<Code.LimitExceeded, "ResourceLimitError">>,
     <<Code.InstanceLimitExceeded, "ResourceLimitError">>,
     <<Code.ValidationError, "ValidationError">>,
     <<Code.InvalidParameterValue, "ValidationError">>}

CodeGroups == <<NotFoundCodes, PermissionCodes, ValidationCodes, ThrottlingCodes, LimitCodes>>

\* C3: a ClientError with one of the listed codes is classified as the class
\* the table gives for the code, whatever its message and the operation name,
\* and the code lists are pairwise disjoint, so the order of the tests is
\* immaterial.
C3_KindByCodeTable ==
    /\ \A p \in C3_Listed :
          (Classified /\ HasCode(p[1])) => (result.how = "raise" /\ result.exc.cls = p[2])
    /\ \A i, j \in DOMAIN CodeGroups : i # j => CodeGroups[i] \cap CodeGroups[j] = {}

\* InvalidParameterValue with a two-fragment message came out as ValidationError
C3_Witness ==
    /\ Classified
    /\ HasCode(Code.InvalidParameterValue)
    /\ RawMessage = Frag.Timeout \o <<" ">> \o Frag.Instance
    /\ result.exc.cls = "ValidationError"

\* C4: a ClientError whose code is in none of the lists (an empty, missing or
\* non-string code included) and every exception that is not a ClientError is
\* classified as the base AWSServiceError, none of its subclasses, and what the
\* caller receives is never the raw exception.
C4_UnrecognizedIsGeneric ==
    (/\ Classified
     /\ \/ error.type # "ClientError"
        \/ error.code.t # "str"
        \/ error.code.v \notin KnownCodes) =>
        /\ result.how = "raise"
        /\ result.exc.cls = "AWSServiceError"

\* a ClientError with an empty code has been classified
C4_Witness ==
    /\ Classified
    /\ HasCode(<<>>)
    /\ result.how = "raise"
    /\ result.exc.cls = "AWSServiceError"

\* an operation escaped with an exception
Escaped == entry \in {"aws_operation", "get_instance"} /\ result.how = "raise"

\* the name the wrapper reports: the decorator argument or, when none is given,
\* the name of the function
ReportedName ==
    IF func.operation_name.t = "str" /\ func.operation_name.v # <<>>
    THEN func.operation_name.v
    ELSE func.name

\* C5, as stated: every domain error that escapes a decorated operation, raised
\* by handle_error or directly by the body, has a message that contains the
\* name of the failed operation.
C5_MessageNamesOperation == Escaped => str_contains(operation, result.exc.message)

\* C5, amended: every domain error that handle_error produces, called directly
\* or by the wrapper for a raw exception of the body, has a message that begins
\* with the operation name it was given followed by " failed: ". A domain error
\* raised by the body itself or by a nested decorated operation is re-raised
\* unchanged: the error of get_instance reads "Instance <id> not found", and
\* an error classified inside the nested list_instances names list_instances.
C5_MessageNamesClassifyingOperation ==
    /\ Classified => IsPrefix(operation \o Text.failed, result.exc.message)
    /\ (entry = "aws_operation" /\ body.how = "raise_raw") =>
          /\ result.how = "raise"
          /\ IsPrefix(ReportedName \o Text.failed, result.exc.message)
    /\ (entry = "aws_operation" /\ body.how = "raise_domain") => result = Raise(body.domain)
    /\ (entry = "get_instance" /\ body.how = "raise_raw") =>
          /\ result.how = "raise"
          /\ IsPrefix(Op.list_instances \o Text.failed, result.exc.message)
    /\ (entry = "get_instance" /\ body.how = "return" /\ body.value = <<>>) =>
          /\ result.how = "raise"
          /\ \E id \in InstanceIds :
                result.exc.message = Text.Instance_ \o id \o Text.not_found

\* get_instance found no instance and raised its own error
C5_Witness ==
    /\ entry = "get_instance"
    /\ body.how = "return"
    /\ body.value = <<>>
    /\ result.how = "raise"
    /\ result.exc.cls = "ResourceNotFoundError"

\* C6: a ClientError with code AccessDenied or UnauthorizedOperation, whatever
\* its message m and the operation name op, is classified as
\* PermissionDeniedError with a message that contains op and m and a suggestion
\* that mentions "IAM permissions".
C6_PermissionDenied ==
    (Classified /\ (HasCode(Code.AccessDenied) \/ HasCode(Code.UnauthorizedOperation))) =>
        /\ result.how = "raise"
        /\ result.exc.cls = "PermissionDeniedError"
        /\ str_contains(operation, result.exc.message)
        /\ str_contains(RawMessage, result.exc.message)
        /\ str_truthy(result.exc.suggestion)
        /\ str_contains(Keyword.IAM_permissions, result.exc.suggestion.v)

\* AccessDenied, "User is not authorized", stop_instance
C6_Witness ==
    /\ Classified
    /\ HasCode(Code.AccessDenied)
    /\ RawMessage = Frag.not_authorized
    /\ operation = Op.stop_instance
    /\ result.exc.cls = "PermissionDeniedError"

\* C7: a ClientError with code Throttling, ThrottlingException or
\* RequestLimitExceeded is classified as RateLimitError; when its message
\* contains "try again in N seconds" (N = 0 included) the error carries N, its
\* suggestion telling the caller to wait N seconds, and when the message has no
\* such substring the generic back-off suggestion is used.
C7_WaitSecondsFromMessage ==
    (Classified /\ \E c \in {Code.Throttling, Code.ThrottlingException, Code.RequestLimitExceeded} :
                      HasCode(c)) =>
        /\ result.how = "raise"
        /\ result.exc.cls = "RateLimitError"
        /\ LET m == re_search_wait_time(RawMessage)
           IN  result.exc.suggestion =
                  IF m.found
                  THEN Str(Text.wait_for \o int_format(int_parse(m.group)) \o Text.before_retrying)
                  ELSE Str(Suggestion.backoff)

\* the class of a Generic error
GenericClass == "AWSServiceError"

\* C8, as stated: a NoCredentialsError is classified as AuthenticationFailed, a
\* kind of its own that callers can tell apart from Generic, with a suggestion
\* that names explicit keys, 'aws configure' and a profile.
C8_AuthenticationFailedKind ==
    (Classified /\ error.type = "NoCredentialsError") =>
        /\ result.how = "raise"
        /\ result.exc.cls # GenericClass
        /\ str_truthy(result.exc.suggestion)
        /\ str_contains(Keyword.keys, result.exc.suggestion.v)
        /\ str_contains(Keyword.aws_configure, result.exc.suggestion.v)
        /\ str_contains(Keyword.profile, result.exc.suggestion.v)

\* C8, amended: a NoCredentialsError is classified as the base AWSServiceError,
\* the class Generic errors have (there is no AuthenticationFailed class); it
\* is told apart only by its message "<op> failed: No valid AWS credentials
\* found" and by its suggestion, which names explicit keys, 'aws configure' and
\* a profile.
C8_NoCredentialsIsBaseError ==
    (Classified /\ error.type = "NoCredentialsError") =>
        /\ result.how = "raise"
        /\ result.exc.cls = GenericClass
        /\ result.exc.message = operation \o Text.failed \o Text.no_credentials
        /\ str_truthy(result.exc.suggestion)
        /\ str_contains(Keyword.keys, result.exc.suggestion.v)
        /\ str_contains(Keyword.aws_configure, result.exc.suggestion.v)
        /\ str_contains(Keyword.profile, result.exc.suggestion.v)

\* a NoCredentialsError has been classified
C8_Witness ==
    /\ Classified
    /\ error.type = "NoCredentialsError"
    /\ operation = Op.verify_ec2_access
    /\ result.how = "raise"

\* a Generic error: the base class, made from anything but a NoCredentialsError
Generic ==
    /\ Classified
    /\ result.how = "raise"
    /\ result.exc.cls = GenericClass
    /\ error.type # "NoCredentialsError"

\* the message of the raw error: the Message of a ClientError, str(e) otherwise
RawText == IF error.type = "ClientError" THEN RawMessage ELSE str_error(error)

NetworkRelated(text) ==
    \/ str_contains(Text.connection, str_lower(text))
    \/ str_contains(Text.timeout, str_lower(text))

\* C9, as stated: every Generic error has a message that embeds the operation
\* name and the raw message, and whenever the raw message contains "connection"
\* or "timeout" in any letter case its suggestion is the network-check
\* suggestion, on the unrecognized-code path as on the other-exception path.
C9_NetworkSuggestionOnEveryPath ==
    Generic =>
        /\ str_contains(operation, result.exc.message)
        /\ str_contains(RawText, result.exc.message)
        /\ NetworkRelated(RawText) => result.exc.suggestion = Str(Suggestion.network)

\* C9, amended: every Generic error has the message "<op> failed: <str(e)>",
\* which embeds the operation name and the raw message. On the other-exception
\* path the suggestion is the network-check suggestion when str(e) contains
\* "connection" or "timeout" in any letter case and is absent otherwise; on the
\* unrecognized-code path the suggestion is always the AWS-documentation
\* suggestion, network words or not.
C9_NetworkSuggestionOnlyForOtherExceptions ==
    Generic =>
        /\ result.exc.message = operation \o Text.failed \o str_error(error)
        /\ str_contains(RawText, result.exc.message)
        /\ error.type = "ClientError" => result.exc.suggestion = Str(Suggestion.documentation)
        /\ error.type # "ClientError" =>
              result.exc.suggestion =
                  IF NetworkRelated(RawText) THEN Str(Suggestion.network) ELSE None

\* an unknown code with a message that mentions a timeout got the
\* AWS-documentation suggestion
C9_Witness ==
    /\ Generic
    /\ HasCode(Code.OtherError)
    /\ RawMessage = Frag.Timeout
    /\ result.exc.suggestion = Str(Suggestion.documentation)

\* a not-found code of the source has been classified
NotFoundClassified ==
    /\ Classified
    /\ error.type = "ClientError"
    /\ error.code.t = "str"
    /\ error.code.v \in {Code.ResourceNotFoundException, Code.NoSuchEntity, Code.NoSuchBucket,
                         Code.NotFound, Code.InvalidInstanceID_NotFound, Code.InvalidGroup_NotFound,
                         Code.InvalidSecurityGroupID_NotFound, Code.InvalidKeyPair_NotFound,
                         Code.InvalidKeyPair_Duplicate, Code.InvalidVpcID_NotFound}

Nouns == <<Text.instance, Text.security_group, Text.key_pair, Text.vpc>>

\* the first noun, in the order of Nouns, that the text contains in any letter
\* case, None when it contains none
FirstNoun(text) ==
    LET hits == {i \in DOMAIN Nouns : str_contains(Nouns[i], str_lower(text))}
    IN  IF hits = {} THEN None ELSE Str(Nouns[SetMin(hits)])

\* s[i] and s[j] are quotes around a non-empty token of letters, digits, hyphens
QuotedToken(s, i, j) ==
    /\ i + 1 < j
    /\ s[i] = "'"
    /\ s[j] = "'"
    /\ \A k \in (i + 1)..(j - 1) : s[k] \in IdChars

\* the first single-quoted token of the text, None when it holds none
FirstQuotedToken(s) ==
    LET toks == {p \in (1..Len(s)) \X (1..Len(s)) : QuotedToken(s, p[1], p[2])}
    IN  IF toks = {} THEN None
        ELSE LET p == CHOOSE q \in toks : \A r \in toks : q[1] <= r[1]
             IN  Str(SubSeq(s, p[1] + 1, p[2] - 1))

SameIgnoringCase(x, y) ==
    \/ x = None /\ y = None
    \/ x.t = "str" /\ y.t = "str" /\ str_lower(x.v) = str_lower(y.v)

\* C10, as stated: for a ResourceNotFound the resource type is the first of the
\* nouns "instance", "security group", "key pair", "vpc" that the error message
\* contains and the resource id is the first single-quoted token of the
\* message; each is absent exactly when the message holds no such noun,
\* respectively no such token.
C10_TypeAndIdFromMessage ==
    NotFoundClassified =>
        /\ result.exc.cls = "ResourceNotFoundError"
        /\ SameIgnoringCase(result.exc.resource_type, FirstNoun(RawMessage))
        /\ result.exc.resource_id = FirstQuotedToken(RawMessage)

\* the noun is found in the message or, for "instance" and "vpc", in the code
NounHit(i) ==
    \/ str_contains(Nouns[i], str_lower(RawMessage))
    \/ Nouns[i] \in {Text.instance, Text.vpc} /\ str_contains(Nouns[i], str_lower(error.code.v))

\* C10, amended: the resource type is the first of the nouns "instance",
\* "security group", "key pair", "vpc" found, in any letter case, in the error
\* message or, for "instance" and "vpc", in the error code (a "vpc" hit is
\* reported as "VPC"); the resource id is the first single-quoted token of
\* letters, digits and hyphens of the message. The type is absent exactly when
\* neither the message nor the code gives a hit, the id exactly when the
\* message holds no such token.
C10_TypeFromMessageOrCode ==
    NotFoundClassified =>
        /\ result.exc.cls = "ResourceNotFoundError"
        /\ LET hits == {i \in DOMAIN Nouns : NounHit(i)}
           IN  result.exc.resource_type =
                  IF hits = {} THEN None
                  ELSE IF Nouns[SetMin(hits)] = Text.vpc THEN Str(Text.VPC)
                  ELSE Str(Nouns[SetMin(hits)])
        /\ result.exc.resource_id = FirstQuotedToken(RawMessage)

\* InvalidInstanceID.NotFound with a message that names no resource, and a
\* quoted id after a quoted text that is no token
C10_Witness ==
    /\ NotFoundClassified
    /\ HasCode(Code.InvalidInstanceID_NotFound)
    /\ RawMessage = Frag.quoted_other \o <<" ">> \o Frag.quoted_id
    /\ result.exc.resource_type = Str(Text.instance)
    /\ result.exc.resource_id = Str(Frag.id_i_0a)

(***************************************************************************)
(* Claims about the guardrails.                                            *)
(***************************************************************************)
\* function fn has returned
Returned(fn) == stage = "returned" /\ call = fn

\* one of the two checks has returned
Checked == Returned("check_security") \/ Returned("check_sensitive_info")

\* the flag of a verdict of check fn: is_malicious or contains_sensitive_info
Flag(fn, v) == IF fn = "check_security" THEN v.is_malicious ELSE v.contains_sensitive_info

\* whether check fn of a package flags a text
Flags(pkg, fn, s) ==
    IF fn = "check_security" THEN check_security(pkg, s).is_malicious
    ELSE check_sensitive_info(pkg, s).contains_sensitive_info

\* whether the returned check flagged its text
Flagged == Flag(call, verdict)

Reverse(seq) == [i \in 1..Len(seq) |-> seq[Len(seq) + 1 - i]]

\* a rule tried on a text: whether it fires, and the reasoning it gives
Outcome(hit, reasoning) == [hit |-> hit, reasoning |-> reasoning]

\* the rules of each check in the order the code tries them, each tried on s by
\* itself
AgenticSecurityRules(s) ==
    [n \in 1..Len(agentic_dangerous_patterns) |->
        Outcome(re_search(agentic_dangerous_patterns[n].re, s, TRUE),
                <<"Input contains potentially dangerous command pattern: ",
                  agentic_dangerous_patterns[n].pattern>>)]
    \o [n \in 1..Len(agentic_credential_rules) |->
        Outcome(re_search(agentic_credential_rules[n].re, s, FALSE),
                agentic_credential_rules[n].reasoning)]

AgenticSensitiveRules(s) ==
    [n \in 1..Len(agentic_sensitive_patterns) |->
        Outcome(re_search(agentic_sensitive_patterns[n].re, s, TRUE),
                <<"Output contains sensitive information matching pattern: ",
                  agentic_sensitive_patterns[n].pattern>>)]

\* (the scope rules are the pairs of a scope and an operation, scope by scope)
DevopsSecurityRules(s) ==
    [n \in 1..Len(devops_dangerous_patterns) |->
        Outcome(re_search(devops_dangerous_patterns[n].re, str_lower(s), FALSE),
                <<"Input contains potentially dangerous pattern: '",
                  devops_dangerous_patterns[n].pattern, "'">>)]
    \o [n \in 1..(Len(devops_excessive_scope_patterns) * Len(devops_destructive_operations)) |->
        LET sc == devops_excessive_scope_patterns[
                      ((n - 1) \div Len(devops_destructive_operations)) + 1]
            op == devops_destructive_operations[
                      ((n - 1) % Len(devops_destructive_operations)) + 1]
        IN  Outcome(re_search(sc.re, str_lower(s), FALSE) /\ str_contains(op.chars, str_lower(s)),
                    <<"Input combines excessive scope '", sc.pattern,
                      "' with destructive operation '", op.text, "'">>)]

DevopsSensitiveRules(s) ==
    [n \in 1..Len(devops_sensitive_patterns) |->
        Outcome(devops_rule_returns(devops_sensitive_patterns[n], s),
                <<"Output contains sensitive information: ", devops_sensitive_patterns[n].name>>)]
    \o [n \in 1..Len(devops_credential_mentions) |->
        Outcome(devops_mention_returns(devops_credential_mentions[n], str_lower(s)),
                <<"Output appears to contain ", devops_credential_mentions[n].text>>)]

RulesOf(pkg, fn, s) ==
    IF pkg = "agentic_devops"
    THEN IF fn = "check_security" THEN AgenticSecurityRules(s) ELSE AgenticSensitiveRules(s)
    ELSE IF fn = "check_security" THEN DevopsSecurityRules(s) ELSE DevopsSensitiveRules(s)

\* the reasoning of a verdict that flags nothing
GenericReasonings ==
    {<<"Input does not contain any known dangerous patterns">>,
     <<"Output does not contain any known sensitive information patterns">>,
     <<"Input does not contain known dangerous patterns">>,
     <<"Output does not contain known patterns of sensitive information">>}

\* the verdict is the one of the first rule that fires, the generic one when none
\* does
DecidedByFirstRule(outcomes, fn, v) ==
    LET hits == {n \in 1..Len(outcomes) : outcomes[n].hit}
    IN  /\ Flag(fn, v) = (hits # {})
        /\ hits # {} => v.reasoning = outcomes[SetMin(hits)].reasoning
        /\ hits = {} => v.reasoning \in GenericReasonings

\* the flag check fn of a package gives a text when its rule lists are tried in
\* the reverse order
FlagsReversed(pkg, fn, s) ==
    IF pkg = "agentic_devops"
    THEN IF fn = "check_security"
         THEN agentic_check_security_with(Reverse(agentic_dangerous_patterns),
                                          Reverse(agentic_credential_rules), s).is_malicious
         ELSE agentic_check_sensitive_info_with(Reverse(agentic_sensitive_patterns), s)
                  .contains_sensitive_info
    ELSE IF fn = "check_security"
         THEN devops_check_security_with(Reverse(devops_dangerous_patterns),
                                         Reverse(devops_excessive_scope_patterns),
                                         Reverse(devops_destructive_operations), s).is_malicious
         ELSE devops_check_sensitive_info_with(Reverse(devops_sensitive_patterns),
                                               Reverse(devops_credential_mentions), s)
                  .contains_sensitive_info

\* C11: each check tries its rules in list order: it flags the text exactly when
\* some rule fires, its reasoning is the one of the first rule that fires and
\* the generic "no known patterns" one when none does; trying the rules in
\* another order gives the same flag.
C11_FirstRuleDecides ==
    Checked =>
        /\ DecidedByFirstRule(RulesOf(package, call, checked_text), call, verdict)
        /\ FlagsReversed(package, call, checked_text) = Flagged

\* "rm -rf / && halt" fires two rules and the first in list order is quoted; in
\* the reverse order the other one would be
C11_Witness ==
    /\ Returned("check_security")
    /\ package = "agentic_devops"
    /\ checked_text = Phrase.rm_root_then_halt
    /\ verdict.is_malicious
    /\ verdict.reasoning[2] = agentic_dangerous_patterns[1].pattern
    /\ agentic_check_security_with(Reverse(agentic_dangerous_patterns),
                                   Reverse(agentic_credential_rules), checked_text).reasoning[2]
           = "halt"

\* the destructive operations the dangerous_patterns of agentic_devops are written
\* for, one text of each
ListedDestructiveOperations ==
    {Phrase.rm_root, Phrase.rm_home, Phrase.disk_wipe, Phrase.fork_bomb, Phrase.wget_bash,
     Phrase.curl_bash, Phrase.drop_table, Phrase.delete_from, Phrase.shutdown, Phrase.halt,
     Phrase.passwd_root, Phrase.chmod_root, Phrase.chown_root}

\* C12: check_security of agentic_devops flags every text that contains one of the
\* listed destructive operations (the fork bomb ':(){ :|:& };:' among them) and
\* does not flag the benign listing request.
C12_ListedOperationsFlagged ==
    (Returned("check_security") /\ package = "agentic_devops") =>
        /\ (\E op \in ListedDestructiveOperations : str_contains(op, checked_text))
               => verdict.is_malicious
        /\ checked_text = Phrase.list_instances => ~verdict.is_malicious

\* the nouns of the scope-widening phrases
ScopeNouns ==
    {<<"r", "e", "g", "i", "o", "n", "s">>, <<"a", "c", "c", "o", "u", "n", "t", "s">>,
     <<"r", "e", "s", "o", "u", "r", "c", "e", "s">>, <<"i", "n", "s", "t", "a", "n", "c", "e", "s">>,
     <<"d", "a", "t", "a", "b", "a", "s", "e", "s">>,
     <<"r", "e", "p", "o", "s", "i", "t", "o", "r", "i", "e", "s">>}

DestructiveVerbs ==
    {<<"d", "e", "l", "e", "t", "e">>, <<"r", "e", "m", "o", "v", "e">>,
     <<"t", "e", "r", "m", "i", "n", "a", "t", "e">>, <<"s", "t", "o", "p">>,
     <<"k", "i", "l", "l">>}

\* s holds "all", white space and one of the nouns
ContainsScopePhrase(s) ==
    \E noun \in ScopeNouns : \E i \in 1..Len(s) : \E j \in (i + 4)..Len(s) :
        /\ MatchesAt(s, <<"a", "l", "l">>, i)
        /\ \A k \in (i + 3)..(j - 1) : s[k] \in SpaceChars
        /\ MatchesAt(s, noun, j)

ContainsDestructiveVerb(s) == \E verb \in DestructiveVerbs : str_contains(verb, s)

\* no dangerous pattern of devops check_security matches the text
NoDangerousPattern(s) == first_match(devops_dangerous_patterns, 1, str_lower(s), FALSE) = 0

\* C13: devops check_security flags a text that matches none of the dangerous
\* patterns exactly when the text holds, in any letter case, a scope-widening
\* phrase and a destructive verb, anywhere and in either order; "show me all
\* regions" is not flagged and "delete all instances in all regions" is.
C13_ScopeWithDestructiveVerb ==
    (Returned("check_security") /\ package = "devops") =>
        /\ NoDangerousPattern(checked_text) =>
               (verdict.is_malicious <=>
                    /\ ContainsScopePhrase(str_lower(checked_text))
                    /\ ContainsDestructiveVerb(str_lower(checked_text)))
        /\ checked_text = Phrase.show_regions => ~verdict.is_malicious
        /\ checked_text = Phrase.delete_all_everywhere => verdict.is_malicious

\* a text with a verb and, later, a scope phrase, and no dangerous pattern, is
\* flagged by the scope rule
C13_Witness ==
    /\ Returned("check_security")
    /\ package = "devops"
    /\ NoDangerousPattern(checked_text)
    /\ str_contains(<<"s", "t", "o", "p">>, checked_text)
    /\ str_contains(<<"a", "l", "l", " ", "r", "e", "g", "i", "o", "n", "s">>, checked_text)
    /\ verdict.is_malicious
    /\ verdict.reasoning[1] = "Input combines excessive scope '"

AlnumChars == LowerChars \cup UpperChars \cup DigitChars

AwsKeyVariableNames ==
    {<<"A", "W", "S", "_", "A", "C", "C", "E", "S", "S", "_", "K", "E", "Y", "_", "I", "D">>,
     <<"A", "W", "S", "_", "S", "E", "C", "R", "E", "T", "_", "A", "C", "C", "E", "S", "S", "_",
       "K", "E", "Y">>}

\* s holds 'ghp_' and 36 letters or digits after it
ContainsGithubToken(s) ==
    \E i \in 1..Len(s) : MatchesAt(s, <<"g", "h", "p", "_">>, i) /\ RunLength(s, i + 4, AlnumChars) >= 36

\* the words between BEGIN and PRIVATE KEY of a PEM private-key header
PemLabels == {<<"R", "S", "A", " ">>, <<"D", "S", "A", " ">>, <<"E", "C", " ">>,
              <<"O", "P", "E", "N", "S", "S", "H", " ">>}

\* (the unlabelled PKCS#8 header too)
PemLabelsOrNone == PemLabels \cup {<<>>}

ContainsPrivateKeyHeader(s, labels) ==
    \E label \in labels :
        str_contains(<<"-", "-", "-", "-", "-", "B", "E", "G", "I", "N", " ">> \o label
                     \o <<"P", "R", "I", "V", "A", "T", "E", " ", "K", "E", "Y", "-", "-", "-", "-", "-">>,
                     s)

ContainsCredential(s, labels) ==
    \/ \E name \in AwsKeyVariableNames : str_contains(name, s)
    \/ ContainsGithubToken(s)
    \/ ContainsPrivateKeyHeader(s, labels)

\* C14 as stated: check_security, of either package, flags every text that holds
\* an AWS key variable name, a GitHub token or a PEM private-key header.
C14_CredentialsFlagged ==
    (Returned("check_security") /\ ContainsCredential(checked_text, PemLabelsOrNone))
        => verdict.is_malicious

\* the texts that hold a credential and nothing else
CredentialOnlyTexts ==
    {Phrase.access_key_id_name, Phrase.secret_access_key_name, Phrase.github_token,
     Phrase.rsa_header, Phrase.pkcs8_header}

\* C14 amended: check_security of agentic_devops flags every text that holds an
\* AWS key variable name, a GitHub token or an RSA, DSA, EC or OPENSSH private-key
\* header, whatever else the text holds, and does not flag the unlabelled header
\* by itself; check_security of devops has no credential rule and does not flag a
\* text that holds a credential and nothing else.
C14_CredentialsFlaggedByAgentic ==
    Returned("check_security") =>
        /\ (package = "agentic_devops" /\ ContainsCredential(checked_text, PemLabels))
               => verdict.is_malicious
        /\ (package = "agentic_devops" /\ checked_text = Phrase.pkcs8_header)
               => ~verdict.is_malicious
        /\ (package = "devops" /\ checked_text \in CredentialOnlyTexts)
               => ~verdict.is_malicious

\* a GitHub token with other words after it, flagged as a token
C14_Witness ==
    /\ Returned("check_security")
    /\ package = "agentic_devops"
    /\ ContainsGithubToken(checked_text)
    /\ Len(checked_text) > Len(Phrase.github_token)
    /\ verdict.is_malicious
    /\ verdict.reasoning = <<"Input contains GitHub token information">>

PrivateAddresses == {Phrase.ip_10, Phrase.ip_172_16, Phrase.ip_172_31, Phrase.ip_192_168}

PublicAddresses == {Phrase.ip_8, Phrase.ip_172_1, Phrase.ip_172_32, Phrase.ip_210}

\* s holds the address ip, with no digit or dot next to it
ContainsAddress(ip, s) ==
    \E i \in 1..Len(s) :
        /\ MatchesAt(s, ip, i)
        /\ i > 1 => s[i - 1] \notin DigitChars \cup {"."}
        /\ i + Len(ip) <= Len(s) => s[i + Len(ip)] \notin DigitChars \cup {"."}

\* C15: check_sensitive_info, of either package, flags a text that holds an
\* address of 10.0.0.0/8, of 172.16.0.0 to 172.31.255.255 or of 192.168.0.0/16,
\* and does not flag a text that is one address outside those ranges (8.8.8.8,
\* 172.1.2.3, 172.32.0.1, 210.1.2.3).
C15_OnlyPrivateAddressesFlagged ==
    Returned("check_sensitive_info") =>
        /\ (\E ip \in PrivateAddresses : ContainsAddress(ip, checked_text))
               => verdict.contains_sensitive_info
        /\ checked_text \in PublicAddresses => ~verdict.contains_sensitive_info

\* texts whose only notable content is e-mail addresses: one, one after a label,
\* and two
EmailOnlyTexts ==
    {Phrase.email, Phrase.contact, Phrase.email \o <<" ">> \o Companion.bob,
     Phrase.contact \o <<" ">> \o Companion.bob}

\* C16: devops check_sensitive_info does not flag a text whose only notable
\* content is e-mail addresses, one or several.
C16_EmailAddressesAloneNotFlagged ==
    (Returned("check_sensitive_info") /\ package = "devops" /\ checked_text \in EmailOnlyTexts)
        => ~verdict.contains_sensitive_info

\* texts that mention a keyword without a value after it: in prose, inside a
\* longer word, with the ':' elsewhere on the line
MentionsWithoutValue ==
    {Phrase.password_prose, Phrase.token_prose, Phrase.credential_prose,
     Phrase.token_embedded, Phrase.token_colon_before}

\* C17 as stated: check_sensitive_info does not flag a text that mentions a
\* keyword in prose, inside a longer word or with a ':' or '=' elsewhere on the
\* line.
C17_KeywordNeedsValue ==
    (Returned("check_sensitive_info") /\ checked_text \in MentionsWithoutValue)
        => ~verdict.contains_sensitive_info

CredentialKeywords ==
    {<<"a", "c", "c", "e", "s", "s", " ", "k", "e", "y">>,
     <<"s", "e", "c", "r", "e", "t", " ", "k", "e", "y">>,
     <<"p", "r", "i", "v", "a", "t", "e", " ", "k", "e", "y">>,
     <<"a", "p", "i", " ", "k", "e", "y">>, <<"t", "o", "k", "e", "n">>,
     <<"p", "a", "s", "s", "w", "o", "r", "d">>,
     <<"c", "r", "e", "d", "e", "n", "t", "i", "a", "l">>, <<"s", "e", "c", "r", "e", "t">>}

\* s[i..j] lies within one line of s
WithinLine(s, i, j) == \A k \in i..j : s[k] # "\n"

\* a keyword and a ':' or '=' on one line of s, in either order
KeywordAndSeparatorOnALine(s) ==
    \E kw \in CredentialKeywords : \E i \in 1..Len(s) : \E j \in 1..Len(s) :
        /\ MatchesAt(s, kw, i)
        /\ s[j] \in {":", "="}
        /\ WithinLine(s, IF i < j THEN i ELSE j, IF i < j THEN j ELSE i)

PasswordWords == {<<"p", "a", "s", "s", "w", "o", "r", "d">>, <<"p", "a", "s", "s", "w", "d">>,
                  <<"p", "w", "d">>}

\* a password word, then white space, ':' or '=', then a character that is not
\* white space
PasswordThenWord(s) ==
    \E w \in PasswordWords : \E i \in 1..Len(s) : \E j \in (i + Len(w) + 1)..Len(s) :
        /\ MatchesAt(s, w, i)
        /\ \A k \in (i + Len(w))..(j - 1) : s[k] \in SpaceChars \cup {":", "="}
        /\ s[j] \notin SpaceChars

\* no named pattern of devops check_sensitive_info makes it return
NoSensitivePattern(s) == first_returning(devops_sensitive_patterns, 1, s) = 0

\* texts about a token, a secret, a credential or an 'api key'
OtherKeywordTexts ==
    {Phrase.token_prose, Phrase.token_embedded, Phrase.token_colon_before,
     Phrase.token_colon_other_line, Phrase.secret_colon, Phrase.credential_prose,
     Phrase.api_key_colon}

\* C17 amended: devops check_sensitive_info flags a text that no named pattern
\* flags exactly when one of its lines holds a keyword, as a substring and in any
\* letter case, and a ':' or '=' anywhere; agentic_devops check_sensitive_info
\* flags a password word followed by white space, ':' or '=' and a further word,
\* prose included, and has no rule for the other keywords.
C17_KeywordAndSeparatorOnALine ==
    Returned("check_sensitive_info") =>
        /\ (package = "devops" /\ NoSensitivePattern(checked_text)) =>
               (verdict.contains_sensitive_info
                    <=> KeywordAndSeparatorOnALine(str_lower(checked_text)))
        /\ (package = "agentic_devops" /\ PasswordThenWord(str_lower(checked_text)))
               => verdict.contains_sensitive_info
        /\ (package = "agentic_devops" /\ checked_text \in OtherKeywordTexts)
               => ~verdict.contains_sensitive_info

\* "tokenizer: fast" is reported as a token by devops
C17_Witness ==
    /\ Returned("check_sensitive_info")
    /\ package = "devops"
    /\ checked_text = Phrase.token_embedded
    /\ verdict.contains_sensitive_info
    /\ verdict.reasoning = <<"Output appears to contain ", "token">>

\* check fn of a package gives s in upper case and s in lower case the flag it
\* gave s
SameFlagInEveryCase(pkg, fn, s, flag) ==
    /\ Flags(pkg, fn, str_upper(s)) = flag
    /\ Flags(pkg, fn, str_lower(s)) = flag

\* C18 as stated: each check of each package gives a text, the text in upper case
\* and the text in lower case the same flag.
C18_CaseInsensitiveThroughout ==
    Checked =>
        /\ Flags(package, call, str_upper(checked_text)) = Flagged
        /\ Flags(package, call, str_lower(checked_text)) = Flagged

\* the dangerous pattern of agentic_devops check_security that matches s first
AgenticDangerousMatch(s) == first_match(agentic_dangerous_patterns, 1, s, TRUE)

\* the credential mention of devops check_sensitive_info that returns first
DevopsMention(s) == first_mention(devops_credential_mentions, 1, str_lower(s))

\* C18 amended: the letter case of the text does not change the flag of
\* agentic_devops check_sensitive_info nor of devops check_security, nor the
\* dangerous pattern found by agentic_devops check_security, nor the credential
\* mention found by devops check_sensitive_info; the credential tests of
\* agentic_devops check_security and the named patterns of devops
\* check_sensitive_info are case-sensitive: the first flags a GitHub token and not
\* the token in upper case, the second a private-key header and not the header in
\* lower case.
C18_CaseInsensitiveWhereTheCodeIs ==
    Checked =>
        /\ (package = "agentic_devops" /\ call = "check_sensitive_info")
               => SameFlagInEveryCase(package, call, checked_text, Flagged)
        /\ (package = "devops" /\ call = "check_security")
               => SameFlagInEveryCase(package, call, checked_text, Flagged)
        /\ (package = "agentic_devops" /\ call = "check_security") =>
               /\ \E n \in {AgenticDangerousMatch(checked_text)} :
                      /\ AgenticDangerousMatch(str_upper(checked_text)) = n
                      /\ AgenticDangerousMatch(str_lower(checked_text)) = n
               /\ checked_text = Phrase.github_token =>
                      verdict.is_malicious /\ ~Flags(package, call, str_upper(checked_text))
        /\ (package = "devops" /\ call = "check_sensitive_info") =>
               /\ DevopsMention(str_upper(checked_text)) = DevopsMention(checked_text)
               /\ checked_text = Phrase.rsa_header =>
                      /\ verdict.contains_sensitive_info
                      /\ ~Flags(package, call, str_lower(checked_text))

\* an access key id is flagged by agentic_devops check_sensitive_info, and so is
\* the key in lower case
C18_Witness ==
    /\ Returned("check_sensitive_info")
    /\ package = "agentic_devops"
    /\ checked_text = Phrase.access_key
    /\ str_lower(checked_text) # checked_text
    /\ verdict.contains_sensitive_info
    /\ Flags(package, call, str_lower(checked_text))

\* turns t and u hold returned invocations of one function with one input
SameInvocation(t, u) ==
    /\ turns[t].stage = "returned"
    /\ turns[u].stage = "returned"
    /\ turns[t].call = turns[u].call
    /\ turns[t].package = turns[u].package
    /\ turns[t].input = turns[u].input

PassesThrough(out, fn, check_result) ==
    /\ out.output_info = check_result
    /\ out.tripwire_triggered = Flag(fn, check_result)

\* C20: the input guardrail trips exactly when check_security flags the text, the
\* output guardrail exactly when check_sensitive_info flags it, and each hands
\* the check's verdict on unchanged as output_info.
C20_TripwireIsTheFlag ==
    /\ Returned("security_guardrail") =>
           PassesThrough(guardrail_output, "check_security",
                         check_security(package, checked_text))
    /\ Returned("sensitive_info_guardrail") =>
           PassesThrough(guardrail_output, "check_sensitive_info",
                         check_sensitive_info(package, checked_text))

\* the input guardrail of devops trips on "rm -rf /" and carries the verdict
C20_Witness ==
    /\ Returned("security_guardrail")
    /\ package = "devops"
    /\ checked_text = Phrase.rm_root
    /\ guardrail_output.tripwire_triggered
    /\ guardrail_output.output_info.is_malicious
    /\ guardrail_output.output_info.reasoning[2] = "rm\\s+-rf\\s+/"

(***************************************************************************)
(* The command line's error handler: print_error and handle_cli_error      *)
(* (src/agentic_devops/src/cli.py).                                        *)
(***************************************************************************)
\* the terminal codes print_error puts around its lines
COLORS == [red |-> "\\033[91m", yellow |-> "\\033[93m", reset |-> "\\033[0m", bold |-> "\\033[1m"]

\* an exception as handle_cli_error sees it: the family isinstance() finds, the
\* class, str(error) and the suggestion attribute (Missing when the class has
\* none)
CliError(family, cls, message, suggestion) ==
    [family |-> family, cls |-> cls, message |-> message, suggestion |-> suggestion]

\* class CredentialError(Exception), credentials.py
CredentialError(message, suggestion) ==
    CliError("CredentialError", "CredentialError", message,
             IF str_truthy(suggestion) THEN suggestion
             ELSE Str(<<"C", "h", "e", "c", "k", " ", "y", "o", "u", "r", " ", "c", "r", "e",
                 "d", "e", "n", "t", "i", "a", "l", " ", "c", "o", "n", "f", "i", "g", "u", "r",
                 "a", "t", "i", "o", "n", ".">>))

\* class GitHubError(Exception) and its subclasses, github.py: they declare no
\* suggestion
GitHubClasses ==
    {"GitHubError", "ResourceNotFoundError", "AuthenticationError", "ValidationError",
     "RateLimitError"}
GitHubError(cls, message) == CliError("GitHubError", cls, message, Missing)

\* an AWSServiceError or a subclass, as the classifier makes them
AwsCliError(e) == CliError("AWSServiceError", e.cls, e.message, e.suggestion)

\* any other exception
OtherCliError(cls, message) == CliError("Exception", cls, message, Missing)

\* getattr(error, 'suggestion', None)
getattr_suggestion(err) == IF err.suggestion = Missing THEN None ELSE err.suggestion

\* print_error(message, details, suggestion): the lines it prints, each a
\* sequence of the pieces of its f-string
print_error(message, details, suggestion) ==
    <<<<COLORS.red, COLORS.bold, "ERROR: ">> \o message \o <<COLORS.reset>>>>
    \o (IF str_truthy(details) THEN <<details.v>> ELSE <<>>)
    \o (IF str_truthy(suggestion)
        THEN <<<<"\n", COLORS.yellow, "SUGGESTION: ">> \o suggestion.v \o <<COLORS.reset>>>>
        ELSE <<>>)

\* f"Error: {error}"
error_details(err) == Str(<<"Error: ">> \o err.message)

\* handle_cli_error, the CredentialError branch
credential_error_type(err) ==
    IF str_contains(<<"A", "W", "S">>, err.message) THEN <<"AWS credentials error">>
    ELSE IF str_contains(<<"G", "i", "t", "H", "u", "b">>,
        err.message) THEN <<"GitHub credentials error">>
    ELSE <<"Credential error">>

\* handle_cli_error, the GitHubError branch
github_error_lines(err) ==
    IF err.cls = "AuthenticationError"
    THEN print_error(<<"GitHub authentication failed">>, error_details(err),
             Str(<<"Check your GitHub token or set the GITHUB_TOKEN environment variable.">>))
    ELSE IF str_contains(<<"O", "r", "g", "a", "n", "i", "z", "a", "t", "i", "o", "n", " ", "i",
        "s", " ", "r", "e", "q", "u", "i", "r", "e", "d">>, err.message)
    THEN print_error(<<"GitHub organization or user required">>, error_details(err),
             Str(<<"Specify an organization with --org or a user with --user.">>))
    ELSE IF str_contains(<<"R", "e", "p", "o", "s", "i", "t", "o", "r", "y", " ", "o", "w", "n",
        "e", "r", " ", "i", "s", " ", "r", "e", "q", "u", "i", "r", "e", "d">>, err.message)
    THEN print_error(<<"Repository owner required">>, error_details(err),
             Str(<<"Specify the repository owner with --owner or use the full repository path (owner/repo).">>))
    ELSE print_error(<<"GitHub error">>, error_details(err), None)

CliResult(exit_code, printed) == [exit_code |-> exit_code, printed |-> printed]

handle_cli_error(err) ==
    IF err.family = "CredentialError"
    THEN CliResult(1, print_error(credential_error_type(err), error_details(err),
                                  getattr_suggestion(err)))
    ELSE IF err.family = "GitHubError"
    THEN CliResult(1, github_error_lines(err))
    ELSE IF err.family = "AWSServiceError"
    THEN CliResult(1, print_error(<<"AWS operation failed: ", err.cls>>, error_details(err),
                                  getattr_suggestion(err)))
    ELSE CliResult(1, print_error(<<"Unexpected error">>, error_details(err), None))

\* the messages of the exceptions that reach the command line
CliMessages ==
    {<<"N", "o", " ", "A", "W", "S", " ", "c", "r", "e", "d", "e", "n", "t", "i", "a", "l", "s",
        " ", "f", "o", "u", "n", "d">>, <<"G", "i", "t", "H", "u", "b", " ", "t", "o", "k", "e",
        "n", " ", "i", "s", " ", "r", "e", "q", "u", "i", "r", "e", "d">>,
     <<"A", "W", "S", " ", "o", "r", " ", "G", "i", "t", "H", "u", "b", " ", "c", "r", "e", "d",
         "e", "n", "t", "i", "a", "l", "s", " ", "m", "i", "s", "s", "i", "n", "g">>, <<"O", "r",
         "g", "a", "n", "i", "z", "a", "t", "i", "o", "n", " ", "i", "s", " ", "r", "e", "q",
         "u", "i", "r", "e", "d">>,
     <<"R", "e", "p", "o", "s", "i", "t", "o", "r", "y", " ", "o", "w", "n", "e", "r", " ", "i",
         "s", " ", "r", "e", "q", "u", "i", "r", "e", "d">>, <<"s", "t", "o", "p", "_", "i", "n",
         "s", "t", "a", "n", "c", "e", " ", "f", "a", "i", "l", "e", "d", ":", " ", "b", "o",
         "o", "m">>, <<>>}

\* the suggestions an exception may be constructed with
CliSuggestions == {None, Str(<<>>), Str(Suggestion.credentials)}

CliErrors ==
    {CredentialError(m, s) : m \in CliMessages, s \in CliSuggestions}
    \cup {GitHubError(c, m) : c \in GitHubClasses, m \in CliMessages}
    \cup {AwsCliError(AWSServiceError(m, s)) : m \in CliMessages, s \in CliSuggestions}
    \cup {AwsCliError(e) : e \in UNION {{ResourceNotFoundError(m, None, None),
                                        ResourceNotFoundError(m, Str(Text.instance), Str(Frag.id_i_0a)),
                                        PermissionDeniedError(m), ValidationError(m),
                                        RateLimitError(m, NoInt), ResourceLimitError(m)}
                                       : m \in CliMessages}}
    \cup {OtherCliError(c, m) : c \in {"ValueError", "KeyError"}, m \in CliMessages}

\* a command failed and hands the exception to handle_cli_error
CallHandleCliError ==
    /\ cli.stage = "idle"
    /\ \E e \in CliErrors : cli' = [stage |-> "called", error |-> e]
    /\ UNCHANGED beside_cli

\* handle_cli_error has printed and returns the exit code
HandleCliErrorReturns ==
    /\ cli.stage = "called"
    /\ \E out \in {handle_cli_error(cli.error)} :
          cli' = [stage |-> "returned", error |-> cli.error,
                  exit_code |-> out.exit_code, printed |-> out.printed]
    /\ UNCHANGED beside_cli

\* the command line exits with the code
CliExits ==
    /\ cli.stage = "returned"
    /\ cli' = [stage |-> "idle"]
    /\ UNCHANGED beside_cli

CliNext == CallHandleCliError \/ HandleCliErrorReturns \/ CliExits

CliSpec == Init /\ [][CliNext]_all_vars

(***************************************************************************)
(* Claims about the command line's error handler.                          *)
(***************************************************************************)
\* handle_cli_error has returned
CliReturned == cli.stage = "returned"

\* the label of the 'ERROR: <label>' line printed first
PrintedLabel == SubSeq(cli.printed[1], 4, Len(cli.printed[1]) - 1)

\* the 'SUGGESTION: ...' lines printed
SuggestionLines ==
    {i \in 1..Len(cli.printed) : Len(cli.printed[i]) >= 3 /\ cli.printed[i][3] = "SUGGESTION: "}

\* the text of a printed suggestion line
SuggestionText(i) == SubSeq(cli.printed[i], 4, Len(cli.printed[i]) - 1)

\* the error carries a suggestion
HasSuggestion(err) == str_truthy(getattr_suggestion(err))

\* the label the claim gives each family
FamilyLabel ==
    [CredentialError |-> <<"Credential Error">>, AWSServiceError |-> <<"AWS Error">>,
     GitHubError |-> <<"GitHub Error">>, Exception |-> <<"Unexpected Error">>]

\* C21 as stated: handle_cli_error returns 1 and prints 'ERROR: <label>' with the
\* label fixed by the exception's family alone ("Credential Error", "AWS Error",
\* "GitHub Error", "Unexpected Error"), and a SUGGESTION line exactly when the
\* error has a suggestion.
C21_LabelByFamilyAlone ==
    CliReturned =>
        /\ cli.exit_code = 1
        /\ PrintedLabel = FamilyLabel[cli.error.family]
        /\ (SuggestionLines # {}) <=> HasSuggestion(cli.error)

\* the label handle_cli_error gives an error: by its family, then by its class or
\* by what its message holds
LabelOfError(err) ==
    CASE err.family = "CredentialError" ->
             IF str_contains(<<"A", "W", "S">>, err.message) THEN <<"AWS credentials error">>
             ELSE IF str_contains(<<"G", "i", "t", "H", "u", "b">>,
                 err.message) THEN <<"GitHub credentials error">>
             ELSE <<"Credential error">>
      [] err.family = "GitHubError" ->
             IF err.cls = "AuthenticationError" THEN <<"GitHub authentication failed">>
             ELSE IF str_contains(<<"O", "r", "g", "a", "n", "i", "z", "a", "t", "i", "o", "n",
                 " ", "i", "s", " ", "r", "e", "q", "u", "i", "r", "e", "d">>, err.message)
             THEN <<"GitHub organization or user required">>
             ELSE IF str_contains(<<"R", "e", "p", "o", "s", "i", "t", "o", "r", "y", " ", "o",
                 "w", "n", "e", "r", " ", "i", "s", " ", "r", "e", "q", "u", "i", "r", "e",
                 "d">>, err.message)
             THEN <<"Repository owner required">>
             ELSE <<"GitHub error">>
      [] err.family = "AWSServiceError" -> <<"AWS operation failed: ", err.cls>>
      [] OTHER -> <<"Unexpected error">>

\* What the handler does instead: it returns 1 for every exception and prints
\* 'ERROR: <label>' and then 'Error: <message>'; the label is chosen by the
\* family and, within it, by the class or the message; a SUGGESTION line is
\* printed for a credential or AWS error exactly when its suggestion is not
\* empty, and is then that suggestion; for a GitHub error exactly when the label
\* is a specific one; never for another exception.
LabelByFamilyClassAndMessage ==
    CliReturned =>
        /\ cli.exit_code = 1
        /\ PrintedLabel = LabelOfError(cli.error)
        /\ cli.printed[2] = <<"Error: ">> \o cli.error.message
        /\ Cardinality(SuggestionLines) <= 1
        /\ cli.error.family \in {"CredentialError", "AWSServiceError"} =>
               /\ (SuggestionLines # {}) <=> HasSuggestion(cli.error)
               /\ \A i \in SuggestionLines : SuggestionText(i) = cli.error.suggestion.v
        /\ cli.error.family = "GitHubError" =>
               ((SuggestionLines # {}) <=> PrintedLabel # <<"GitHub error">>)
        /\ cli.error.family = "Exception" => SuggestionLines = {}

\* a ValidationError of the classifier is printed under its class name, with its
\* suggestion
LabelByClassPrinted ==
    /\ CliReturned
    /\ cli.error.family = "AWSServiceError"
    /\ cli.error.cls = "ValidationError"
    /\ cli.exit_code = 1
    /\ PrintedLabel = <<"AWS operation failed: ", "ValidationError">>
    /\ SuggestionLines = {3}

(***************************************************************************)
(* Claims about the decorator as a whole.                                  *)
(***************************************************************************)
\* a decorated operation has been called and has come back
OperationCalled == entry = "aws_operation"

\* C22 as stated: whatever exception the body of a decorated method raises, the
\* caller observes an AWSServiceError or a subclass; a domain error of the body
\* is re-raised unchanged, any other exception is handed to handle_error with
\* the operation name (the decorator argument or else the function's name), and
\* on success the body's return value is returned unchanged.
C22_EveryExceptionClassified ==
    OperationCalled =>
        /\ body.how # "return" => result.how = "raise" /\ result.exc.cls \in DomainClasses
        /\ body.how = "raise_domain" => result = Raise(body.domain)
        /\ body.how = "raise_raw" => result = handle_error(body.raw, ReportedName)
        /\ body.how = "return" => result = Return(body.value)

\* C22 amended: as stated when self is an AWSBaseService; when it is not, an
\* exception of the body that is no domain error is not handed to handle_error:
\* the caller observes the base AWSServiceError '<operation name> failed:
\* <str(e)>' without a suggestion, whatever the exception is.
C22_ClassifiedForAServiceWrappedOtherwise ==
    OperationCalled =>
        /\ body.how # "return" => result.how = "raise" /\ result.exc.cls \in DomainClasses
        /\ body.how = "raise_domain" => result = Raise(body.domain)
        /\ body.how = "raise_raw" /\ service => result = handle_error(body.raw, ReportedName)
        /\ body.how = "raise_raw" /\ ~service =>
               result = Raise(AWSServiceError(
                            ReportedName \o Text.failed \o str_error(body.raw), None))
        /\ body.how = "return" => result = Return(body.value)

\* an AccessDenied client error of the body of a function that is given no
\* service comes out as the base error, and the same error comes out as a
\* PermissionDeniedError of a service
C22_Witness ==
    /\ OperationCalled
    /\ body.how = "raise_raw"
    /\ error.type = "ClientError"
    /\ error.code = Str(Code.AccessDenied)
    /\ ~service
    /\ result.how = "raise"
    /\ result.exc.cls = "AWSServiceError"
    /\ handle_error(body.raw, ReportedName).exc.cls = "PermissionDeniedError"

(***************************************************************************)
(* get_credential_manager and set_credential_manager.  The module has no   *)
(* lock: a thread may be suspended between any two of the steps of         *)
(* get_credential_manager, which are the test of the global, the           *)
(* construction and assignment of a manager, and the read of the global    *)
(* for the return value.                                                   *)
(***************************************************************************)
\* a thread calls get_credential_manager()
CallGetCredentialManager(t) ==
    /\ credentials.thread[t].pc = "idle"
    /\ credentials' = [credentials EXCEPT !.thread[t].pc = "test"]
    /\ UNCHANGED beside_credentials

\* if _credential_manager is None:
TestManagerIsNone(t) ==
    /\ credentials.thread[t].pc = "test"
    /\ credentials' =
           [credentials EXCEPT
               !.thread[t].pc = IF credentials.manager = NoManager THEN "init" ELSE "return"]
    /\ UNCHANGED beside_credentials

\* _credential_manager = CredentialManager(...)
InitManager(t) ==
    /\ credentials.thread[t].pc = "init"
    /\ credentials' =
           [credentials EXCEPT !.manager = Manager("lazy", t),
                               !.created = @ \cup {Manager("lazy", t)},
                               !.thread[t].pc = "return"]
    /\ UNCHANGED beside_credentials

\* return _credential_manager
ReturnManager(t) ==
    /\ credentials.thread[t].pc = "return"
    /\ credentials' =
           [credentials EXCEPT
               !.thread[t] = [pc |-> "returned", got |-> credentials.manager],
               !.observed = @ \cup {[replaced |-> credentials.replaced,
                                     manager |-> credentials.manager]}]
    /\ UNCHANGED beside_credentials

\* the caller goes on with the manager it was given
CallerGoesOn(t) ==
    /\ credentials.thread[t].pc = "returned"
    /\ credentials' = [credentials EXCEPT !.thread[t] = ThreadIdle]
    /\ UNCHANGED beside_credentials

\* set_credential_manager(manager), with a manager of the caller's making
SetCredentialManager ==
    /\ credentials.replaced < MaxReplacements
    /\ credentials' =
           [credentials EXCEPT !.manager = Manager("set", credentials.replaced + 1),
                               !.replaced = @ + 1]
    /\ UNCHANGED beside_credentials

CallGetCredentialManagerInAThread == \E t \in Threads : CallGetCredentialManager(t)
TestManagerIsNoneInAThread == \E t \in Threads : TestManagerIsNone(t)
InitManagerInAThread == \E t \in Threads : InitManager(t)
ReturnManagerInAThread == \E t \in Threads : ReturnManager(t)
CallerGoesOnInAThread == \E t \in Threads : CallerGoesOn(t)

CredentialsNext ==
    \/ CallGetCredentialManagerInAThread
    \/ TestManagerIsNoneInAThread
    \/ InitManagerInAThread
    \/ ReturnManagerInAThread
    \/ CallerGoesOnInAThread
    \/ SetCredentialManager

CredentialsSpec == Init /\ [][CredentialsNext]_all_vars

\* C23: get_credential_manager returns the same CredentialManager on every call
\* until set_credential_manager replaces it: the lazy initialization creates at
\* most one manager, also when the first calls are made concurrently from
\* several threads, and all callers observe one and the same instance.
C23_OneManagerForAllCallers ==
    /\ Cardinality(credentials.created) <= 1
    /\ \A o1, o2 \in credentials.observed :
           o1.replaced = o2.replaced => o1.manager = o2.manager

\* whatever the interleaving, a call returns a manager, never None, and a
\* manager it returns was made by the lazy initialization or handed to
\* set_credential_manager
ReturnsAManager ==
    \A o \in credentials.observed :
        /\ o.manager # NoManager
        /\ o.manager.by = "lazy" => o.manager \in credentials.created

(***************************************************************************)
(* GitHubService._make_request and its cache.  A response is what          *)
(* requests.request gives back: it raises a RequestException, or it        *)
(* returns headers, a status code, a text and a body.  Time is counted in  *)
(* ticks of the clock time.time() reads.                                   *)
(***************************************************************************)
\* a result of _make_request or of a method built on it
GhReturn(value) == [how |-> "return", value |-> value, exc |-> NoGhResult.exc]
GhRaise(exc) == [how |-> "raise", value |-> <<>>, exc |-> exc]

\* a call of _make_request(method, endpoint, params, use_cache, cache_ttl,
\* raw_response); full_url is the endpoint joined to the one base URL
Request(method, url, params, use_cache, cache_ttl, raw_response) ==
    [method |-> method, url |-> url, params |-> params, use_cache |-> use_cache,
     cache_ttl |-> cache_ttl, raw_response |-> raw_response]

\* what requests.request does
RequestFails == [kind |-> "RequestException", remaining |-> Missing, reset |-> Missing,
                 status |-> 0, text |-> <<>>, body |-> "none"]
Response(remaining, reset, status, text, content) ==
    [kind |-> "response", remaining |-> remaining, reset |-> reset, status |-> status,
     text |-> text, body |-> content]

\* cache_key = f"{method}:{full_url}:{json.dumps(params or {})}"
cache_key(req) == <<req.method, ":", req.url, ":", req.params>>

\* self.cache = {} and self.cache.clear()
EmptyCache == << >>
clear_cache(cache) == EmptyCache

\* cached = self.cache.get(cache_key)
cache_holds(cache, req) == cache_key(req) \in DOMAIN cache

\* (the lookup with `<=`: an entry of exactly cache_ttl seconds is still served)
cache_fresh_at_ttl(cache, now, req) ==
    /\ req.method = "GET" /\ req.use_cache
    /\ cache_holds(cache, req)
    /\ now - cache[cache_key(req)].timestamp <= req.cache_ttl

\* lines 176-183: method == "GET" and use_cache, and
\* cached and time.time() - cached["timestamp"] < cache_ttl
cache_fresh(cache, now, req) ==
    /\ req.method = "GET" /\ req.use_cache
    /\ cache_holds(cache, req)
    /\ now - cache[cache_key(req)].timestamp < req.cache_ttl

\* self.cache[cache_key] = {"timestamp": time.time(), "data": result}
cache_store(cache, now, req, data) ==
    [k \in DOMAIN cache \cup {cache_key(req)} |->
        IF k = cache_key(req) THEN [timestamp |-> now, data |-> data] ELSE cache[k]]

\* int(x) of a header: the number, or a ValueError
IsNumber(x) == x # <<>> /\ \A i \in 1..Len(x) : x[i] \in DigitChars

\* max(0, reset_time - int(time.time()))
wait_time(response, now) ==
    LET reset_time == IF response.reset = Missing THEN 0 ELSE int_parse(response.reset.v)
    IN  IF reset_time - now > 0 THEN reset_time - now ELSE 0

\* lines 208-215: the rate limit headers
rate_limit_check(response, now) ==
    IF ~str_truthy(response.remaining) THEN NoGhResult
    ELSE IF ~IsNumber(response.remaining.v)
    THEN GhRaise(OtherCliError("ValueError",
                 <<"invalid literal for int() with base 10: ">> \o response.remaining.v))
    ELSE IF int_parse(response.remaining.v) # 0 THEN NoGhResult
    ELSE IF response.reset # Missing /\ ~IsNumber(response.reset.v)
    THEN GhRaise(OtherCliError("ValueError",
                 <<"invalid literal for int() with base 10: ">> \o response.reset.v))
    ELSE GhRaise(GitHubError("RateLimitError",
                 <<"GitHub API rate limit exceeded. Resets in ">>
                 \o int_format(wait_time(response, now)) \o <<" seconds.">>))

\* lines 217-233: the status codes
status_check(req, response) ==
    IF response.status = 404
    THEN GhRaise(GitHubError("ResourceNotFoundError",
                             <<"GitHub resource not found: ", req.url>>))
    ELSE IF response.status = 401
    THEN GhRaise(GitHubError("AuthenticationError", <<"GitHub authentication failed">>))
    ELSE IF response.status = 403
    THEN IF str_contains(<<"r", "a", "t", "e", " ", "l", "i", "m", "i", "t">>,
        str_lower(response.text))
         THEN GhRaise(GitHubError("RateLimitError", <<"GitHub API rate limit exceeded">>))
         ELSE GhRaise(GitHubError("GitHubError",
                                  <<"GitHub API access forbidden: ">> \o response.text))
    ELSE IF response.status >= 400
    THEN GhRaise(GitHubError("GitHubError",
                             <<"GitHub API error (">> \o int_format(response.status) \o <<"): ">>
                             \o response.text))
    ELSE NoGhResult

\* (a _make_request that drops the entries of a resource when a request that
\* changes it succeeds)
after_request_invalidating(cache, now, req, response, value) ==
    LET limited == rate_limit_check(response, now)
        refused == status_check(req, response)
        parsed == IF response.body = "empty" THEN <<>> ELSE value
        kept == IF req.method = "GET" THEN cache
                ELSE [k \in {j \in DOMAIN cache : j[3] # req.url} |-> cache[k]]
    IN  IF response.kind = "RequestException"
        THEN [result |-> GhRaise(GitHubError("GitHubError", <<"GitHub API request failed: ">>)),
              cache |-> cache]
        ELSE IF limited.how = "raise" THEN [result |-> limited, cache |-> cache]
        ELSE IF refused.how = "raise" THEN [result |-> refused, cache |-> cache]
        ELSE IF req.raw_response THEN [result |-> GhReturn(response), cache |-> kept]
        ELSE IF response.body = "garbled"
        THEN [result |-> GhRaise(GitHubError("GitHubError",
                                 <<"Failed to parse GitHub API response: ">>)),
              cache |-> cache]
        ELSE [result |-> GhReturn(parsed),
              cache |-> IF req.method = "GET" /\ req.use_cache
                        THEN cache_store(cache, now, req, parsed)
                        ELSE kept]

\* lines 198-257, from the call of requests.request on: what _make_request gives
\* its caller and the cache it leaves; `value` is the JSON the body holds
after_request(cache, now, req, response, value) ==
    LET limited == rate_limit_check(response, now)
        refused == status_check(req, response)
        parsed == IF response.body = "empty" THEN <<>> ELSE value
    IN  IF response.kind = "RequestException"
        THEN [result |-> GhRaise(GitHubError("GitHubError", <<"GitHub API request failed: ">>)),
              cache |-> cache]
        ELSE IF limited.how = "raise" THEN [result |-> limited, cache |-> cache]
        ELSE IF refused.how = "raise" THEN [result |-> refused, cache |-> cache]
        ELSE IF req.raw_response THEN [result |-> GhReturn(response), cache |-> cache]
        ELSE IF response.body = "garbled"
        THEN [result |-> GhRaise(GitHubError("GitHubError",
                                 <<"Failed to parse GitHub API response: ">>)),
              cache |-> cache]
        ELSE [result |-> GhReturn(parsed),
              cache |-> IF req.method = "GET" /\ req.use_cache
                        THEN cache_store(cache, now, req, parsed)
                        ELSE cache]

(***************************************************************************)
(* The service at work: one caller, one request at a time.                 *)
(***************************************************************************)
\* the resources requests are made for
Urls == {"repos/o/r", "user"}

\* the JSON a resource reads as after n successful mutations
Data(n) == <<"version", n>>

\* the requests the methods of the service make: reads (get_repository and the
\* like, with and without the cache, parsed or raw) and mutations
\* (create_repository, delete_repository and the like)
Requests ==
    {Request("GET", u, NoParams, c, CacheTtlTicks, r) : u \in Urls, c \in BOOLEAN, r \in BOOLEAN}
    \cup {Request(m, u, NoParams, c, CacheTtlTicks, FALSE) :
              m \in {"POST", "DELETE"}, u \in Urls, c \in BOOLEAN}

\* answers of a server at ease: success with a body or without, and failures
PlainResponses ==
    {RequestFails}
    \cup {Response(Missing, Missing, s, <<>>, b) : s \in {200}, b \in {"json", "empty"}}
    \cup {Response(Missing, Missing, 404, <<"N", "o", "t", " ", "F", "o", "u", "n", "d">>,
        "json"),
          Response(Str(<<"0">>), Missing, 200, <<>>, "json"),
          Response(Missing, Missing, 200, <<>>, "garbled")}

\* every kind of answer: the rate limit headers present or not, zero or not,
\* numbers or not; statuses below and above 400; texts that mention the rate
\* limit or do not
Responses ==
    {RequestFails}
    \cup {Response(rem, Missing, s, t, b) :
              rem \in {Missing, Str(<<>>), Str(<<"5", "7">>), Str(<<"s", "o", "o", "n">>)},
              s \in {200, 201, 302, 400, 401, 403, 404, 500},
              t \in {<<"A", "P", "I", " ", "R", "a", "t", "e", " ", "L", "i", "m", "i", "t", " ",
                  "e", "x", "c", "e", "e", "d", "e", "d">>, <<"F", "o", "r", "b", "i", "d", "d",
                  "e", "n">>},
              b \in {"json", "empty", "garbled"}}
    \cup {Response(Str(<<"0">>), reset, s, t, "json") :
              reset \in {Missing, Str(<<"2">>), Str(<<"l", "a", "t", "e", "r">>)},
              s \in {200, 201, 302, 400, 401, 403, 404, 500},
              t \in {<<"A", "P", "I", " ", "R", "a", "t", "e", " ", "L", "i", "m", "i", "t", " ",
                  "e", "x", "c", "e", "e", "d", "e", "d">>, <<"F", "o", "r", "b", "i", "d", "d",
                  "e", "n">>}}

\* the server carries the request out
Accepted(response) == response.kind = "response" /\ response.status < 400

Mutates(req, response) == req.method # "GET" /\ Accepted(response)

\* a caller calls _make_request
CallMakeRequest ==
    /\ github.stage = "idle"
    /\ \E req \in Requests :
           github' = [github EXCEPT !.stage = "called", !.call = req]
    /\ UNCHANGED beside_github

\* lines 176-183: the cache answers
ReturnCached ==
    /\ github.stage = "called"
    /\ cache_fresh(github.cache, github.now, github.call)
    /\ github' = [github EXCEPT
                     !.stage = "returned",
                     !.result = GhReturn(github.cache[cache_key(github.call)].data)]
    /\ UNCHANGED beside_github

\* line 199: requests.request(...) is called
SendRequest ==
    /\ github.stage = "called"
    /\ ~cache_fresh(github.cache, github.now, github.call)
    /\ github' = [github EXCEPT !.stage = "sent", !.sent = TRUE]
    /\ UNCHANGED beside_github

\* the server answers with one of `answers` and lines 208-257 run
ServerResponds(answers) ==
    /\ github.stage = "sent"
    /\ \E response \in answers :
           /\ Mutates(github.call, response) => github.version[github.call.url] < MaxMutations
           /\ \E version \in {IF Mutates(github.call, response)
                              THEN [github.version EXCEPT ![github.call.url] = @ + 1]
                              ELSE github.version} :
              \E out \in {after_request(github.cache, github.now, github.call, response,
                                        Data(version[github.call.url]))} :
                  github' = [github EXCEPT !.stage = "returned", !.version = version,
                                           !.response = response, !.result = out.result,
                                           !.cache = out.cache]
    /\ UNCHANGED beside_github

ServerRespondsPlainly == ServerResponds(PlainResponses)
ServerRespondsAnyhow == ServerResponds(Responses)

\* the caller has the result
MakeRequestDone ==
    /\ github.stage = "returned"
    /\ github' = [github EXCEPT !.stage = "idle", !.call = NoRequest, !.sent = FALSE,
                                !.response = NoResponse, !.result = NoGhResult]
    /\ UNCHANGED beside_github

\* time passes
Tick ==
    /\ github.now < MaxTime
    /\ github' = [github EXCEPT !.now = @ + 1]
    /\ UNCHANGED beside_github

\* clear_cache()
ClearCache ==
    /\ github.stage = "idle"
    /\ github' = [github EXCEPT !.cache = clear_cache(github.cache)]
    /\ UNCHANGED beside_github

GitHubNext ==
    \/ CallMakeRequest
    \/ ReturnCached
    \/ SendRequest
    \/ ServerRespondsPlainly
    \/ MakeRequestDone
    \/ Tick
    \/ ClearCache

GitHubSpec == Init /\ [][GitHubNext]_all_vars

ResponsesNext ==
    \/ CallMakeRequest
    \/ ReturnCached
    \/ SendRequest
    \/ ServerRespondsAnyhow
    \/ MakeRequestDone

ResponsesSpec == Init /\ [][ResponsesNext]_all_vars

(***************************************************************************)
(* Claims about the request cache.                                         *)
(***************************************************************************)
\* the entry the cache holds for the request in hand is younger than its cache_ttl
EntryYoungerThanTtl ==
    /\ github.call.method = "GET"
    /\ github.call.use_cache
    /\ cache_key(github.call) \in DOMAIN github.cache
    /\ github.now - github.cache[cache_key(github.call)].timestamp < github.call.cache_ttl

\* the step in which _make_request looks into the cache
LooksUp == github.stage = "called" /\ github'.stage # "called"

\* the step is a successful parsed GET with use_cache=True that stores what it
\* returns, at the time of the clock, under the key of the request, and leaves
\* every other entry as it was
StoresItsResult ==
    /\ github.stage = "sent"
    /\ github.call.method = "GET"
    /\ github.call.use_cache
    /\ ~github.call.raw_response
    /\ Accepted(github'.response)
    /\ github'.result.how = "return"
    /\ DOMAIN github'.cache = DOMAIN github.cache \cup {cache_key(github.call)}
    /\ \A k \in DOMAIN github'.cache :
           github'.cache[k] =
               IF k = cache_key(github.call)
               THEN [timestamp |-> github.now, data |-> github'.result.value]
               ELSE github.cache[k]

\* the step is a call of clear_cache
ClearsCache == github.stage = "idle" /\ github'.stage = "idle" /\ github'.now = github.now

\* C24: a GET with use_cache=True whose (url, params) was fetched and stored
\* less than cache_ttl ago returns the cached data without a request; once the
\* entry is cache_ttl old or older the request is issued again; entries are
\* written only by successful GET requests with use_cache=True (not by failed
\* requests, other methods or raw_response requests); clear_cache removes every
\* entry.
C24_CacheServesWithinTtl ==
    [][/\ LooksUp =>
              IF EntryYoungerThanTtl
              THEN /\ github'.stage = "returned"
                   /\ ~github'.sent
                   /\ github'.result = GhReturn(github.cache[cache_key(github.call)].data)
                   /\ github'.cache = github.cache
              ELSE github'.stage = "sent" /\ github'.sent
       /\ github'.cache # github.cache => StoresItsResult \/ ClearsCache
       /\ ClearsCache => github'.cache = << >>
      ]_all_vars

\* a read was answered from the cache one tick after it was stored
C24_Witness ==
    /\ github.stage = "returned"
    /\ github.call.method = "GET"
    /\ github.call.use_cache
    /\ ~github.sent
    /\ cache_key(github.call) \in DOMAIN github.cache
    /\ github.cache[cache_key(github.call)].timestamp = github.now - 1
    /\ github.result = GhReturn(github.cache[cache_key(github.call)].data)

\* a read was sent to the server because its entry had reached cache_ttl
SentAtTtl ==
    /\ github.stage = "sent"
    /\ github.call.method = "GET"
    /\ github.call.use_cache
    /\ cache_key(github.call) \in DOMAIN github.cache
    /\ github.cache[cache_key(github.call)].timestamp = github.now - CacheTtlTicks

\* the step in which the server carries out a mutating request
MutationCarriedOut ==
    /\ github.stage = "sent"
    /\ github.call.method # "GET"
    /\ github'.version # github.version

\* the call in hand was answered from the cache
AnsweredFromCache == github.stage = "returned" /\ ~github.sent

\* C25: mutating requests (POST, PUT, DELETE) leave the request cache
\* unchanged, so a cached read of the same resource made within the TTL after
\* a successful mutation returns the data from before the mutation.
C25_MutationsLeaveTheCacheAlone ==
    [][/\ github.stage = "sent" /\ github.call.method # "GET" =>
              github'.cache = github.cache
       /\ MutationCarriedOut =>
              \A k \in DOMAIN github'.cache :
                  k[3] = github.call.url =>
                      github'.cache[k].data # Data(github'.version[github.call.url])
       /\ AnsweredFromCache =>
              github.result = GhReturn(github.cache[cache_key(github.call)].data)
      ]_all_vars

\* a read of a resource that was changed on the server after it was cached is
\* answered from the cache with the data of before the change
C25_Witness ==
    /\ AnsweredFromCache
    /\ github.version[github.call.url] = 1
    /\ github.result = GhReturn(Data(0))

(***************************************************************************)
(* Claims about the failures of a request.                                 *)
(***************************************************************************)
\* the step in which the answer of the server is dealt with
AnswerDealtWith == github.stage = "sent" /\ github'.stage = "returned"

\* the remaining count of a response is 0
RemainingIsZero(r) ==
    /\ r.remaining.t = "str"
    /\ r.remaining.v # <<>>
    /\ \A i \in 1..Len(r.remaining.v) : r.remaining.v[i] = "0"

\* the result is an error of class cls of the GitHubError family
RaisesGitHub(res, cls) == res.how = "raise" /\ res.exc.family = "GitHubError" /\ res.exc.cls = cls

\* what the claim has _make_request do with a response
AsTheStatusSays(r, res) ==
    IF RemainingIsZero(r) THEN RaisesGitHub(res, "RateLimitError")
    ELSE /\ r.status = 404 => RaisesGitHub(res, "ResourceNotFoundError")
         /\ r.status = 401 => RaisesGitHub(res, "AuthenticationError")
         /\ r.status = 403 =>
                IF \E i \in 1..Len(r.text) : MatchesAt(str_lower(r.text), <<"r", "a", "t", "e",
                    " ", "l", "i", "m", "i", "t">>, i)
                THEN RaisesGitHub(res, "RateLimitError")
                ELSE RaisesGitHub(res, "GitHubError")
         /\ r.status >= 400 /\ r.status \notin {401, 403, 404} => RaisesGitHub(res, "GitHubError")

\* C26: _make_request examines X-RateLimit-Remaining before the status code: a
\* response whose remaining count is 0 raises RateLimitError whatever its
\* status, returns no data and stores nothing in the cache; otherwise 404
\* raises ResourceNotFoundError, 401 AuthenticationError, 403 RateLimitError
\* when the body mentions 'rate limit' and GitHubError when not, any other
\* status of 400 or more GitHubError; every failure of a request surfaces as
\* GitHubError or one of its subclasses.
C26_FailuresAreGitHubErrors ==
    [][AnswerDealtWith =>
           /\ github'.response.kind = "response" =>
                  AsTheStatusSays(github'.response, github'.result)
           /\ github'.response.kind = "response" /\ RemainingIsZero(github'.response) =>
                  github'.cache = github.cache
           /\ github'.result.how = "raise" =>
                  /\ github'.result.exc.family = "GitHubError"
                  /\ github'.result.exc.cls \in GitHubClasses
      ]_all_vars

\* the rate limit headers of a response are numbers where they are read
HeadersAreNumbers(r) ==
    /\ str_truthy(r.remaining) => IsNumber(r.remaining.v)
    /\ RemainingIsZero(r) /\ r.reset # Missing => IsNumber(r.reset.v)

\* what holds of every response whose rate limit headers are numbers
FailuresAreGitHubErrorsWhenHeadersAreNumbers ==
    [][AnswerDealtWith /\ HeadersAreNumbers(github'.response) =>
           /\ github'.response.kind = "response" =>
                  AsTheStatusSays(github'.response, github'.result)
           /\ github'.response.kind = "response" /\ RemainingIsZero(github'.response) =>
                  github'.cache = github.cache
           /\ github'.result.how = "raise" =>
                  /\ github'.result.exc.family = "GitHubError"
                  /\ github'.result.exc.cls \in GitHubClasses
      ]_all_vars

(***************************************************************************)
(* GitHubService.list_repositories.  The server answers a request for a    *)
(* page with any number of repositories up to per_page; from page MaxPages *)
(* on its pages are short.  A repository is named by the page and the      *)
(* place it was served at.                                                 *)
(***************************************************************************)
\* the page the server answers with: n repositories
ServerPage(page, n) == [i \in 1..n |-> <<page, i>>]

\* how many repositories a page of the server may hold
PageSizes(page) == IF page >= MaxPages THEN 0..(PerPage - 1) ELSE 0..PerPage

\* answers to a request for a page: a list, no content at all, a failure
ListResponses ==
    {RequestFails, Response(Missing, Missing, 500, <<"S", "e", "r", "v", "e", "r", " ", "E", "r",
        "r", "o", "r">>, "json")}
    \cup {Response(Missing, Missing, 200, <<>>, b) : b \in {"json", "empty"}}

\* lines 349-351: self._make_request("GET", endpoint, params=params,
\* use_cache=use_cache) with params["page"] = page
page_request(listing) ==
    Request("GET", "orgs/o/repos", <<listing.per_page, listing.page>>, listing.use_cache,
            CacheTtlTicks, FALSE)

\* (the loop without `page += 1`)
list_step_same_page(listing, res) ==
    LET asked == Append(listing.asked, listing.page)
    IN  IF res.how = "raise"
        THEN [listing EXCEPT !.stage = "returned", !.asked = asked, !.result = res]
        ELSE IF res.value = <<>>
        THEN [listing EXCEPT !.stage = "returned", !.asked = asked,
                             !.received = Append(@, res.value),
                             !.result = GhReturn(listing.all_repos)]
        ELSE IF Len(res.value) < listing.per_page
        THEN [listing EXCEPT !.stage = "returned", !.asked = asked,
                             !.received = Append(@, res.value),
                             !.all_repos = @ \o res.value,
                             !.result = GhReturn(listing.all_repos \o res.value)]
        ELSE [listing EXCEPT !.asked = asked, !.received = Append(@, res.value),
                             !.all_repos = @ \o res.value]

\* lines 347-362: one turn of the loop, given what _make_request did
list_step(listing, res) ==
    LET asked == Append(listing.asked, listing.page)
    IN  IF res.how = "raise"
        THEN [listing EXCEPT !.stage = "returned", !.asked = asked, !.result = res]
        ELSE IF res.value = <<>>
        THEN [listing EXCEPT !.stage = "returned", !.asked = asked,
                             !.received = Append(@, res.value),
                             !.result = GhReturn(listing.all_repos)]
        ELSE IF Len(res.value) < listing.per_page
        THEN [listing EXCEPT !.stage = "returned", !.asked = asked,
                             !.received = Append(@, res.value),
                             !.all_repos = @ \o res.value,
                             !.result = GhReturn(listing.all_repos \o res.value)]
        ELSE [listing EXCEPT !.asked = asked, !.received = Append(@, res.value),
                             !.all_repos = @ \o res.value, !.page = @ + 1]

\* list_repositories(org=..., per_page=..., use_cache=...) of a service without
\* a default organization: lines 327-344
CallListRepositories ==
    /\ github.stage = "idle"
    /\ github.list.stage = "idle"
    /\ \E org \in {None, Str(<<"o">>)}, use_cache \in BOOLEAN :
           github' =
               [github EXCEPT
                   !.list =
                       IF str_truthy(org)
                       THEN [NoListing EXCEPT !.stage = "listing", !.per_page = PerPage,
                                              !.use_cache = use_cache, !.page = 1]
                       ELSE [NoListing EXCEPT
                                !.stage = "returned",
                                !.result = GhRaise(GitHubError("ValidationError",
                                    <<"O", "r", "g", "a", "n", "i", "z", "a", "t", "i", "o", "n",
                                        " ", "i", "s", " ", "r", "e", "q", "u", "i", "r", "e",
                                        "d", " ", "(", "e", "i", "t", "h", "e", "r", " ", "s",
                                        "p", "e", "c", "i", "f", "y", " ", "o", "r", "g", " ",
                                        "p", "a", "r", "a", "m", "e", "t", "e", "r", ",", " ">>
                                    \o <<"s", "e", "t", " ", "a", " ", "d", "e", "f", "a", "u",
                                        "l", "t", " ", "o", "r", "g", "a", "n", "i", "z", "a",
                                        "t", "i", "o", "n", ",", " ", "o", "r", " ", "s", "p",
                                        "e", "c", "i", "f", "y", " ", "u", "s", "e", "r", " ",
                                        "p", "a", "r", "a", "m", "e", "t", "e", "r", ")">>))]]
    /\ UNCHANGED beside_github

\* one turn of the loop: the request for the page, answered by the cache or by
\* the server, and what the loop does with the answer
ListPage ==
    /\ github.list.stage = "listing"
    /\ \E out \in
           IF cache_fresh(github.cache, github.now, page_request(github.list))
           THEN {[result |-> GhReturn(github.cache[cache_key(page_request(github.list))].data),
                  cache |-> github.cache]}
           ELSE {after_request(github.cache, github.now, page_request(github.list), response,
                               ServerPage(github.list.page, n)) :
                     response \in ListResponses, n \in PageSizes(github.list.page)} :
           github' = [github EXCEPT !.cache = out.cache,
                                    !.list = list_step(github.list, out.result)]
    /\ UNCHANGED beside_github

\* the caller has the list or the error
ListDone ==
    /\ github.list.stage = "returned"
    /\ github' = [github EXCEPT !.list = NoListing]
    /\ UNCHANGED beside_github

ListNext == CallListRepositories \/ ListPage \/ ListDone \/ ClearCache

ListSpec == Init /\ [][ListNext]_all_vars

\* the loop runs in the caller's thread: it takes its next turn
ListFairSpec == ListSpec /\ WF_all_vars(ListPage)

RECURSIVE Concat(_)
Concat(seqs) == IF seqs = <<>> THEN <<>> ELSE Head(seqs) \o Concat(Tail(seqs))

\* a page that ends the listing: empty, or shorter than per_page
ShortPage(p) == p = <<>> \/ Len(p) < github.list.per_page

\* the pages were asked for in the order 1, 2, 3, ...; every page received but
\* the last was no short page; what was gathered is the pages received, in
\* order
PagesInOrder ==
    /\ github.list.asked = [i \in 1..Len(github.list.asked) |-> i]
    /\ github.list.all_repos = Concat(github.list.received)
    /\ \A i \in 1..(Len(github.list.received) - 1) : ~ShortPage(github.list.received[i])

ListReturnedNormally == github.list.stage = "returned" /\ github.list.result.how = "return"

\* C27: list_repositories requests pages 1, 2, 3, ... in increasing order and
\* returns the concatenation, in order, of all pages received; it stops at the
\* first page that is empty or holds fewer than per_page items, and therefore
\* terminates whenever the server eventually returns such a page.
C27_PagesInOrderUntilAShortPage ==
    /\ [](/\ PagesInOrder
          /\ github.list.stage = "listing" =>
                 /\ Len(github.list.received) = Len(github.list.asked)
                 /\ github.list.page = Len(github.list.asked) + 1
                 /\ \A i \in 1..Len(github.list.received) : ~ShortPage(github.list.received[i])
          /\ ListReturnedNormally =>
                 /\ Len(github.list.received) = Len(github.list.asked)
                 /\ github.list.result.value = Concat(github.list.received)
                 /\ ShortPage(github.list.received[Len(github.list.received)]))
    /\ (github.list.stage = "listing" ~> github.list.stage = "returned")

\* a listing returned two full pages and a short one, in that order
C27_Witness ==
    /\ ListReturnedNormally
    /\ github.list.asked = <<1, 2, 3>>
    /\ Len(github.list.received[1]) = github.list.per_page
    /\ Len(github.list.received[2]) = github.list.per_page
    /\ github.list.received[3] # <<>>
    /\ github.list.result.value = github.list.received[1] \o github.list.received[2]
                                  \o github.list.received[3]

(***************************************************************************)
(* The configuration module.  A dict is a Python object: DEFAULT_CONFIG    *)
(* and a shallow copy of it refer to the same nested dicts, and a write    *)
(* through either is seen through both.  `objects` holds the contents of   *)
(* the nested dicts of DEFAULT_CONFIG; every other dict is held by value   *)
(* where it is referred to.                                                *)
(***************************************************************************)
\* isinstance(x, dict)
IsDict(x) == x.t \in {"dict", "ref"}

\* the items of a dict
Contents(x, objects) == IF x.t = "ref" THEN objects[x.v] ELSE x.d

\* d[k] = x
Put(d, k, x) == [j \in DOMAIN d \cup {k} |-> IF j = k THEN x ELSE d[j]]

\* the dict written back where it lives: in place for an object of
\* DEFAULT_CONFIG
Written(target, d, objects) ==
    IF target.t = "ref"
    THEN [v |-> target, objects |-> [objects EXCEPT ![target.v] = d]]
    ELSE [v |-> Dict(d), objects |-> objects]

\* DEFAULT_CONFIG.copy(): a new dict with the same values, the nested dicts
\* shared
shallow_copy(x) == Dict(x.d)

RECURSIVE merge_items(_, _, _, _)
RECURSIVE deep_merge(_, _, _)
\* the loop of _deep_merge over the items of source not yet merged
merge_items(d, source, keys, objects) ==
    IF keys = {} THEN [d |-> d, objects |-> objects]
    ELSE LET key == CHOOSE k \in keys : TRUE
             merged == deep_merge(d[key], source[key], objects)
         IN  IF key \in DOMAIN d /\ IsDict(d[key]) /\ IsDict(source[key])
             THEN merge_items(Put(d, key, merged.v), source, keys \ {key}, merged.objects)
             ELSE merge_items(Put(d, key, source[key]), source, keys \ {key}, objects)

\* _deep_merge(target, source), lines 196-215: the target after the merge and
\* the objects of DEFAULT_CONFIG after it
deep_merge(target, source, objects) ==
    LET m == merge_items(Contents(target, objects), source.d, DOMAIN source.d, objects)
    IN  Written(target, m.d, m.objects)

\* the loop of set_config_value, lines 271-280, from the dict `current`
RECURSIVE set_at(_, _, _, _)
set_at(current, keys, value, objects) ==
    LET d == Contents(current, objects)
        key == Head(keys)
        next == IF key \in DOMAIN d /\ IsDict(d[key]) THEN d[key] ELSE Dict(<< >>)
        below == set_at(next, Tail(keys), value, objects)
    IN  IF Len(keys) = 1 THEN Written(current, Put(d, key, value), objects)
        ELSE Written(current, Put(d, key, below.v), below.objects)

\* the configuration files and environments there are: their contents as
\* _load_config_file and _load_from_env return them
FileConfig ==
    [none |-> Dict(<< >>),
     region |-> Dict([aws |-> Dict([region |-> Scalar("eu-west-1")])]),
     organization |-> Dict([github |-> Dict([organization |-> Scalar("acme")])]),
     logging |-> Dict([logging |-> Scalar("quiet")])]

EnvConfig ==
    [none |-> Dict(<< >>),
     owner |-> Dict([aws |-> Dict([tags |-> Dict([owner |-> Scalar("me")])])])]

ConfigFiles == DOMAIN FileConfig
Environments == DOMAIN EnvConfig

\* load_config(config_file, env_prefix, merge_defaults), lines 43-77, in the
\* environment env
load_config(c, config_file, env, merge_defaults) ==
    LET start == IF merge_defaults THEN shallow_copy(DEFAULT_CONFIG) ELSE Dict(<< >>)
        from_file == IF config_file = "none" THEN [v |-> start, objects |-> c.objects]
                     ELSE deep_merge(start, FileConfig[config_file], c.objects)
        from_env == deep_merge(from_file.v, EnvConfig[env], from_file.objects)
    IN  [c EXCEPT !.top = from_env.v, !.objects = from_env.objects, !.loaded = TRUE]

\* get_config(), lines 218-233, where DEVOPS_CONFIG_FILE names config_file
get_config(c, config_file, env) ==
    IF c.loaded THEN c ELSE load_config(c, config_file, env, TRUE)

\* set_config_value(key_path, value), lines 259-280
set_config_value(c, key_path, value, config_file, env) ==
    LET got == get_config(c, config_file, env)
        set == set_at(got.top, key_path, value, got.objects)
    IN  [got EXCEPT !.top = set.v, !.objects = set.objects]

\* the key paths and the value set_config_value is called with
KeyPaths ==
    {<<"aws", "region">>, <<"aws", "tags", "ManagedBy">>, <<"github", "organization">>,
     <<"cache", "ttl">>, <<"debug">>}

SetValue == Scalar("changed")

\* a caller calls load_config
CallLoadConfig ==
    /\ \E config_file \in ConfigFiles, env \in Environments, merge_defaults \in BOOLEAN :
           config' = [load_config(config, config_file, env, merge_defaults) EXCEPT
                         !.last = [op |-> "load_config", config_file |-> config_file,
                                   env |-> env, merge_defaults |-> merge_defaults,
                                   key_path |-> <<>>]]
    /\ UNCHANGED beside_config

\* a caller calls set_config_value
CallSetConfigValue ==
    /\ \E key_path \in KeyPaths, config_file \in ConfigFiles, env \in Environments :
           /\ config.loaded => config_file = "none" /\ env = "none"
           /\ config' = [set_config_value(config, key_path, SetValue, config_file, env) EXCEPT
                            !.last = [op |-> "set_config_value", config_file |-> config_file,
                                      env |-> env, merge_defaults |-> TRUE,
                                      key_path |-> key_path]]
    /\ UNCHANGED beside_config

ConfigNext == CallLoadConfig \/ CallSetConfigValue

ConfigSpec == Init /\ [][ConfigNext]_all_vars

\* a configuration written out in full, the references followed
RECURSIVE Plain(_, _)
Plain(x, objects) ==
    IF IsDict(x)
    THEN Dict([k \in DOMAIN Contents(x, objects) |-> Plain(Contents(x, objects)[k], objects)])
    ELSE x

\* the default values as the source lists them
OriginalDefaults == Plain(DEFAULT_CONFIG, DefaultObjects)

\* the last call was load_config() with no file and nothing in the environment
LoadedPlainly ==
    /\ config.last.op = "load_config"
    /\ config.last.config_file = "none"
    /\ config.last.env = "none"
    /\ config.last.merge_defaults

\* C28: after any sequence of load_config and set_config_value calls, a
\* load_config call with no configuration file and no environment overrides
\* yields exactly the original default values: DEFAULT_CONFIG, its nested
\* 'aws', 'github' and 'logging' sections included, is never modified by
\* loading or setting configuration.
C28_DefaultsNeverModified ==
    /\ Plain(DEFAULT_CONFIG, config.objects) = OriginalDefaults
    /\ LoadedPlainly => Plain(config.top, config.objects) = OriginalDefaults

\* the keys of DEFAULT_CONFIG itself are never changed: it always names its
\* three sections, and a load with merge_defaults starts from what they hold
TopLevelOfDefaultsKept ==
    LoadedPlainly => Plain(config.top, config.objects) = Plain(DEFAULT_CONFIG, config.objects)

(***************************************************************************)
(* EC2Service.resize_instance.  The instance is EC2's: it goes from        *)
(* pending to running and from stopping to stopped by itself, it accepts a *)
(* change of an attribute only while it is stopped, and any call of the    *)
(* API may fail.  `done` lists what the call has carried out so far.       *)
(***************************************************************************)
InstanceTypes == {"t2.micro", "t3.large"}

\* was_running = instance['State']['Name'] == 'running'
was_running_of(state) == state = "running"

\* lines 297-299: the step after get_instance
after_get_instance(was_running) == IF was_running THEN "stop" ELSE "modify"

\* (resize_instance without the restart)
after_modify_without_restart(was_running) == "get_instance"

\* lines 307-309: the step after modify_instance_attribute
after_modify(was_running) == IF was_running THEN "start" ELSE "get_instance"

\* start_instance(instance_id, wait=wait), lines 204-207: the step after
\* start_instances
after_start(wait) == IF wait THEN "wait_running" ELSE "get_instance"

Resizing(pc) == ec2.call.op = "resize_instance" /\ ec2.call.pc = pc

\* EC2 completes a transition of the instance
InstanceSettles ==
    /\ ec2.state \in {"pending", "stopping"}
    /\ ec2' = [ec2 EXCEPT !.state = IF ec2.state = "pending" THEN "running" ELSE "stopped"]
    /\ UNCHANGED beside_ec2

\* between calls, the instance is stopped or started by its owner
OwnerStopsOrStarts ==
    /\ ec2.call.pc = "idle"
    /\ ec2.state \in {"running", "stopped"}
    /\ ec2' = [ec2 EXCEPT !.state = IF ec2.state = "running" THEN "stopping" ELSE "pending"]
    /\ UNCHANGED beside_ec2

\* resize_instance(instance_id, instance_type, wait)
CallResizeInstance ==
    /\ ec2.call.pc = "idle"
    /\ \E instance_type \in InstanceTypes, wait \in BOOLEAN :
           ec2' = [ec2 EXCEPT !.call = [NoEc2Call EXCEPT !.op = "resize_instance",
                                                         !.pc = "start_of_call",
                                                         !.instance_type = instance_type,
                                                         !.wait = wait]]
    /\ UNCHANGED beside_ec2

\* lines 294-295: instance = self.get_instance(instance_id)
ResizeGetsInstance ==
    /\ Resizing("start_of_call")
    /\ ec2' = [ec2 EXCEPT !.call.before = ec2.state,
                          !.call.was_running = was_running_of(ec2.state),
                          !.call.pc = after_get_instance(was_running_of(ec2.state))]
    /\ UNCHANGED beside_ec2

\* line 299, stop_instance: self.client.stop_instances(...)
ResizeStops ==
    /\ Resizing("stop")
    /\ ec2.state \in {"running", "stopping", "stopped"}
    /\ ec2' = [ec2 EXCEPT !.state = IF ec2.state = "running" THEN "stopping" ELSE ec2.state,
                          !.call.done = Append(@, "stop"),
                          !.call.pc = "wait_stopped"]
    /\ UNCHANGED beside_ec2

\* stop_instance with wait=True: self.wait_for('instance_stopped', ...)
ResizeWaitsUntilStopped ==
    /\ Resizing("wait_stopped")
    /\ ec2.state = "stopped"
    /\ ec2' = [ec2 EXCEPT !.call.done = Append(@, "stopped"), !.call.pc = "modify"]
    /\ UNCHANGED beside_ec2

\* lines 301-305: self.client.modify_instance_attribute(InstanceType=...)
ResizeModifies ==
    /\ Resizing("modify")
    /\ ec2.state = "stopped"
    /\ ec2' = [ec2 EXCEPT !.type = ec2.call.instance_type,
                          !.call.modified_in = ec2.state,
                          !.call.done = Append(@, "modify"),
                          !.call.pc = after_modify(ec2.call.was_running)]
    /\ UNCHANGED beside_ec2

\* line 309, start_instance: self.client.start_instances(...)
ResizeStarts ==
    /\ Resizing("start")
    /\ ec2.state \in {"stopped", "pending", "running"}
    /\ ec2' = [ec2 EXCEPT !.state = IF ec2.state = "stopped" THEN "pending" ELSE ec2.state,
                          !.call.done = Append(@, "start"),
                          !.call.pc = after_start(ec2.call.wait)]
    /\ UNCHANGED beside_ec2

\* start_instance with wait=True: self.wait_for('instance_running', ...)
ResizeWaitsUntilRunning ==
    /\ Resizing("wait_running")
    /\ ec2.state = "running"
    /\ ec2' = [ec2 EXCEPT !.call.done = Append(@, "running"), !.call.pc = "get_instance"]
    /\ UNCHANGED beside_ec2

\* line 311: return self.get_instance(instance_id)
ResizeReturns ==
    /\ Resizing("get_instance")
    /\ ec2' = [ec2 EXCEPT !.call.pc = "done", !.call.result = "return"]
    /\ UNCHANGED beside_ec2

\* a call of the API fails or is refused, or a waiter gives up: the exception
\* leaves resize_instance
ResizeRaises ==
    /\ ec2.call.op = "resize_instance"
    /\ ec2.call.pc \notin {"idle", "done"}
    /\ ec2' = [ec2 EXCEPT !.call.pc = "done", !.call.result = "raise"]
    /\ UNCHANGED beside_ec2

\* the caller has the result
Ec2CallDone ==
    /\ ec2.call.pc = "done"
    /\ ec2' = [ec2 EXCEPT !.call = NoEc2Call]
    /\ UNCHANGED beside_ec2

ResizeNext ==
    \/ InstanceSettles
    \/ OwnerStopsOrStarts
    \/ CallResizeInstance
    \/ ResizeGetsInstance
    \/ ResizeStops
    \/ ResizeWaitsUntilStopped
    \/ ResizeModifies
    \/ ResizeStarts
    \/ ResizeWaitsUntilRunning
    \/ ResizeReturns
    \/ ResizeRaises
    \/ Ec2CallDone

ResizeSpec == Init /\ [][ResizeNext]_all_vars

\* resize_instance has returned normally
Resized == Resizing("done") /\ ec2.call.result = "return"

\* what the call carried out, its waits left out
Carried == SelectSeq(ec2.call.done, LAMBDA x : x \in {"stop", "modify", "start"})

\* the stop was waited for: "stopped" follows "stop" at once
StopWaitedFor ==
    \A i \in 1..Len(ec2.call.done) :
        ec2.call.done[i] = "stop" =>
            i < Len(ec2.call.done) /\ ec2.call.done[i + 1] = "stopped"

\* the order of the steps and the state the type is changed in
StepsInOrder ==
    /\ Carried = IF ec2.call.before = "running" THEN <<"stop", "modify", "start">>
                 ELSE <<"modify">>
    /\ StopWaitedFor
    /\ ec2.call.modified_in = "stopped"
    /\ ec2.type = ec2.call.instance_type

\* C29 as stated: on a running instance resize_instance performs stop (waiting
\* until stopped), change of type, start, in this order, on any other instance
\* only the change of type; the type is changed only while the instance is
\* stopped; whenever the call returns normally the instance is running if and
\* only if it was running before the call.
C29_RunningIffWasRunning ==
    Resized =>
        /\ StepsInOrder
        /\ ec2.state = "running" <=> ec2.call.before = "running"

\* C29 amended: the steps, their order and the state of the change are as
\* stated; when the call returns normally an instance that was not running is
\* stopped, an instance that was running is running if the call was made with
\* wait=True, and with wait=False it has been started but may still be pending.
C29_RunningAgainWhenWaitedFor ==
    Resized =>
        /\ StepsInOrder
        /\ ec2.call.before # "running" => ec2.state = "stopped"
        /\ ec2.call.before = "running" /\ ec2.call.wait => ec2.state = "running"
        /\ ec2.call.before = "running" /\ ~ec2.call.wait => ec2.state \in {"pending", "running"}

\* a running instance was resized without waiting for the restart and is still
\* pending when the call returns
C29_Witness ==
    /\ Resized
    /\ ec2.call.before = "running"
    /\ ~ec2.call.wait
    /\ ec2.call.done = <<"stop", "stopped", "modify", "start">>
    /\ ec2.type = "t3.large"
    /\ ec2.state = "pending"

(***************************************************************************)
(* EC2Service.deploy_from_github.  Systems Manager accepts a command for   *)
(* an instance that runs; the user data of an instance can be written      *)
(* while it is stopped and an instance can be rebooted while it runs; the  *)
(* owner may stop or start the instance while the deployment goes on.      *)
(***************************************************************************)
Deploying(pc) == ec2.call.op = "deploy_from_github" /\ ec2.call.pc = pc

\* the statements of the try block, lines 764-797, in order
TrySteps == <<"send_command", "wait_command", "get_command_invocation">>

\* deploy_from_github(instance_id, repository, ...)
CallDeployFromGithub ==
    /\ ec2.call.pc = "idle"
    /\ ec2' = [ec2 EXCEPT !.user_data = FALSE,
                          !.call = [NoEc2Call EXCEPT !.op = "deploy_from_github",
                                                     !.pc = "start_of_call"]]
    /\ UNCHANGED beside_ec2

\* lines 712-720: get_instance and the GitHub service client
DeployGetsInstance ==
    /\ Deploying("start_of_call")
    /\ ec2' = [ec2 EXCEPT !.call.before = ec2.state, !.call.pc = TrySteps[1]]
    /\ UNCHANGED beside_ec2

\* lines 765-773: ssm_client.send_command(...) is accepted
DeploySendsCommand ==
    /\ Deploying("send_command")
    /\ ec2.state = "running"
    /\ ec2' = [ec2 EXCEPT !.call.accepted = TRUE,
                          !.call.done = Append(@, "send_command"),
                          !.call.pc = TrySteps[2]]
    /\ UNCHANGED beside_ec2

\* lines 776-781: waiter.wait(...) comes back
DeployWaitsForCommand ==
    /\ Deploying("wait_command")
    /\ ec2' = [ec2 EXCEPT !.call.pc = TrySteps[3]]
    /\ UNCHANGED beside_ec2

\* lines 784-797: get_command_invocation and the result
DeployReturnsOutput ==
    /\ Deploying("get_command_invocation")
    /\ ec2' = [ec2 EXCEPT !.call.pc = "done", !.call.result = "return"]
    /\ UNCHANGED beside_ec2

\* line 799: except Exception, from any statement of the try block: the command
\* is not accepted, the waiter gives up or reports a failed command, the
\* invocation cannot be read
DeployFallsBack ==
    /\ ec2.call.op = "deploy_from_github"
    /\ \E i \in 1..Len(TrySteps) : ec2.call.pc = TrySteps[i]
    /\ ec2' = [ec2 EXCEPT !.call.fallback = TRUE, !.call.pc = "modify_instance_attribute"]
    /\ UNCHANGED beside_ec2

\* lines 812-815: self.client.modify_instance_attribute(UserData=...)
DeployWritesUserData ==
    /\ Deploying("modify_instance_attribute")
    /\ ec2.state = "stopped"
    /\ ec2' = [ec2 EXCEPT !.user_data = TRUE,
                          !.call.done = Append(@, "modify_instance_attribute"),
                          !.call.pc = "reboot_instance"]
    /\ UNCHANGED beside_ec2

\* line 818 and reboot_instance, lines 268-273
DeployReboots ==
    /\ Deploying("reboot_instance")
    /\ ec2.state = "running"
    /\ ec2' = [ec2 EXCEPT !.call.rebooted = TRUE,
                          !.call.done = Append(@, "reboot_instances"),
                          !.call.pc = "return_pending"]
    /\ UNCHANGED beside_ec2

\* lines 820-828: the result of the fallback
DeployReturnsPending ==
    /\ Deploying("return_pending")
    /\ ec2' = [ec2 EXCEPT !.call.pc = "done", !.call.result = "return"]
    /\ UNCHANGED beside_ec2

\* a call outside the try block fails or is refused: the exception leaves
\* deploy_from_github
DeployRaises ==
    /\ ec2.call.op = "deploy_from_github"
    /\ ec2.call.pc \in {"start_of_call", "modify_instance_attribute", "reboot_instance"}
    /\ ec2' = [ec2 EXCEPT !.call.pc = "done", !.call.result = "raise"]
    /\ UNCHANGED beside_ec2

\* the owner stops or starts the instance while the deployment goes on
OwnerActsDuringDeploy ==
    /\ ec2.call.op = "deploy_from_github"
    /\ ec2.call.pc # "done"
    /\ ec2.state \in {"running", "stopped"}
    /\ ec2' = [ec2 EXCEPT !.state = IF ec2.state = "running" THEN "stopping" ELSE "pending"]
    /\ UNCHANGED beside_ec2

DeployNext ==
    \/ InstanceSettles
    \/ OwnerStopsOrStarts
    \/ OwnerActsDuringDeploy
    \/ CallDeployFromGithub
    \/ DeployGetsInstance
    \/ DeploySendsCommand
    \/ DeployWaitsForCommand
    \/ DeployReturnsOutput
    \/ DeployFallsBack
    \/ DeployWritesUserData
    \/ DeployReboots
    \/ DeployReturnsPending
    \/ DeployRaises
    \/ Ec2CallDone

DeploySpec == Init /\ [][DeployNext]_all_vars

\* C30: deploy_from_github delivers the deployment script to the instance at
\* most once per call: the fallback that writes the script into the user data
\* and reboots the instance is taken only when the script was not submitted
\* through SSM, and the instance is never rebooted after an SSM command has
\* been accepted.
C30_FallbackOnlyWithoutSsm ==
    ec2.call.op = "deploy_from_github" =>
        /\ ec2.call.fallback => ~ec2.call.accepted
        /\ ec2.call.rebooted => ~ec2.call.accepted
        /\ ~(ec2.call.accepted /\ ec2.user_data)

\* the instance was rebooted with the script in its user data after Systems
\* Manager had accepted the same script
RebootedAfterAccepted ==
    /\ Deploying("done")
    /\ ec2.call.result = "return"
    /\ ec2.call.done = <<"send_command", "modify_instance_attribute", "reboot_instances">>

\* a call that returns normally went one of the two ways to its end
DeployReturnsOneOfTwoResults ==
    Deploying("done") /\ ec2.call.result = "return" =>
        \/ ec2.call.accepted /\ ~ec2.call.fallback /\ ~ec2.call.rebooted
        \/ ec2.call.fallback /\ ec2.user_data /\ ec2.call.rebooted
====
